---- MODULE Spec2Model ----
(***************************************************************************)
(* State-machine model of the diary application's synchronisation engine  *)
(* (SyncManager), the Google Drive adapter it drives, the sync metadata    *)
(* store and the part of the local database it reads and writes.           *)
(*                                                                         *)
(* JavaScript runs one task at a time: every action below is the code      *)
(* between two awaits of real I/O (network, IndexedDB, timers), together   *)
(* with everything that code calls synchronously.                          *)
(***************************************************************************)
EXTENDS Integers, Sequences, FiniteSets, TLC

\* ---------------------------------------------------------------- bounds
MaxTime == 2        \* the clock runs 1..MaxTime
MaxAct == 2         \* autoSync invocations that can be suspended at once
MaxQueue == 2       \* length of the offline queue
MaxFiles == 2       \* snapshots in the remote folder
MaxHandlers == 1    \* 'online' handlers that can be suspended at once
MaxImages == 1      \* ids of the images table
MaxListeners == 2   \* listeners that can subscribe
MaxDropbox == 2     \* files in the Dropbox app folder
MaxSalt == 2        \* values of the random salt and iv
ArchiveLen == 2     \* bytes of an exported archive
MaxPosts == 2       \* multipart POSTs of this device to the backup folder
MaxOther == 20      \* files other devices add to the backup folder
MaxSaves == 3       \* saves whose debounce timers are followed
MaxClock == 7       \* the clock of the debounce timers runs 1..MaxClock
MaxUploads == 3     \* snapshots the two replicas upload
MaxEdits == 3       \* saves and deletes the two replicas make
MaxRepTime == 3     \* the clock of the two replicas runs 1..MaxRepTime

\* ------------------------------------------------------ program constants
MaxRetries == 3
MAX_BACKUPS_TO_KEEP == 20
SALT_LENGTH == 16
IV_LENGTH == 12
DEBOUNCE_DELAY == 3   \* setTimeout(..., 3000), in seconds

NULL == "null"
IDLE == "idle"
SYNCING == "syncing"
SUCCESS == "success"
ERROR == "error"
CONFLICT == "conflict"

Keys == {"d1"}                 \* entry dates of the one user
Titles == {"A"}                \* what this device writes; other devices write "B"
Acts == 1..MaxAct
Handlers == 1..MaxHandlers
ImageIds == 1..MaxImages
Listeners == 1..MaxListeners
PANEL == 99                    \* the backup panel as caller of signIn
DEVICE == "self"               \* getDeviceId() of this installation
USER == "user"                 \* the userId that handleAuthenticated sets

VARIABLES
  now,              \* Date.now()
  status, lastSyncTime, remoteFileId, lastError, conflictDetails,
  isOnline, pendingQueue, storedQueue, debounceTimer,   \* SyncManager fields
  autoSyncEnabled, wifiOnly, syncOnSave,                \* syncSettings
  connection,       \* navigator.connection
  accessToken,      \* googleDriveService holds a valid token
  userId,           \* SyncManager.userId
  signInWaiter,     \* whose promise the token callback settles
  files,            \* remote folder, newest first
  entries,          \* db.entries of the user
  images,           \* db.images of the user
  meta,             \* db.syncMetadata record
  act,              \* the suspended autoSync invocations
  onl,              \* the suspended 'online' handlers
  panel,            \* the backup panel's pending notifySyncSuccess
  listeners,        \* SyncManager.listeners
  received,         \* the state each listener was last called with
  notice,           \* history: a change of status or isOnline not yet notified
  dropbox,          \* the Dropbox app folder, newest first
  encryptionPassword, \* DropboxService.encryptionPassword
  dbxLast,          \* history: the latest upload or download through DropboxService
  drive,            \* the backup folder with its retention, newest createdTime first
  gd,               \* syncToGoogleDrive: where the one upload of this device stands
  created,          \* history: how many files this device and the others created
  gdLast,           \* history: the step syncToGoogleDrive took in the latest step, if any
  timeouts,         \* the window's pending timeouts of debouncedSyncAfterSave
  debounceTimerId,  \* SyncManager.debounceTimer: the id of the last timeout set
  saveLog,          \* history: when debouncedSyncAfterSave was called, and whether it armed
  fireLog,          \* history: when a timeout ran autoSync, and which timeout
  replica,          \* two installations of one account: store and sync metadata of each
  cloud,            \* the newest snapshot of the folder the two share
  repLast,          \* history: what the latest step of a replica did
  lastCall,         \* history: the autoSync call made in the latest step, if any
  lastEnd           \* history: the attempt that ended in the latest step, if any

vars == <<now, status, lastSyncTime, remoteFileId, lastError, conflictDetails,
          isOnline, pendingQueue, storedQueue, debounceTimer,
          autoSyncEnabled, wifiOnly, syncOnSave, connection,
          accessToken, signInWaiter, files, entries, images, meta,
          act, onl, panel, listeners, received, notice, dropbox,
          encryptionPassword, dbxLast, drive, gd, created, gdLast,
          timeouts, debounceTimerId, saveLog, fireLog,
          replica, cloud, repLast, userId, lastCall, lastEnd>>

\* ---------------------------------------------------------------- helpers
\* Timestamps are milliseconds; 0 stands for null (the code reads a null
\* timestamp as new Date(0)), ids are positive and 0 stands for null.

\* SHA-256 over the archive bytes: distinct bytes give distinct digests
ContentHash(bytes) == bytes

NoEntry == [title |-> NULL, updatedAt |-> 0, deletedAt |-> 0]
\* an image record: the entry it belongs to, the device that made it (which
\* stands for its bytes), and the two fields that a soft delete sets
NoImage == [entryDate |-> NULL, dev |-> NULL, deletedAt |-> 0, updatedAt |-> 0]
NoImages == [i \in ImageIds |-> NoImage]
NoSnapshot == [entries |-> [k \in Keys |-> NoEntry], images |-> NoImages, exportDate |-> 0]
NoFile == [id |-> 0, modifiedTime |-> 0, contentHash |-> NoSnapshot,
           content |-> NoSnapshot, dev |-> NULL]
NoDetails == [present |-> FALSE, remoteMetadata |-> NoFile, localModifiedTime |-> 0,
              entryCount |-> 0]
NoMeta == [lastSyncAt |-> 0, remoteFileId |-> 0, lastSyncDeviceId |-> NULL]

\* getLatestLocalTimestamp: the latest updatedAt of the tables that index
\* userId and updatedAt (the entries table), null when there is none
getLatestLocalTimestamp(es) ==
  LET ts == {es[k].updatedAt : k \in {x \in DOMAIN es : es[x] # NoEntry}}
  IN IF ts = {} THEN 0 ELSE CHOOSE t \in ts : \A u \in ts : u <= t

\* a plausible slip: only the live entries are exported
exportUserDataAsZipLiveOnly(es, imgs, t) ==
  [entries |-> [k \in DOMAIN es |-> IF es[k].deletedAt = 0 THEN es[k] ELSE NoEntry],
   images |-> [i \in ImageIds |->
                 IF imgs[i] # NoImage /\ es[imgs[i].entryDate] # NoEntry
                    /\ es[imgs[i].entryDate].deletedAt = 0 /\ imgs[i].deletedAt = 0
                 THEN [entryDate |-> imgs[i].entryDate, dev |-> imgs[i].dev,
                       deletedAt |-> 0, updatedAt |-> 0]
                 ELSE NoImage],
   exportDate |-> t]

\* exportUserDataAsZip: every entry with all its fields ({...entry}),
\* tombstones too; for each live entry the files of its images that are not
\* soft-deleted, each with a reference {id, createdAt, file names}; the
\* export date
exportUserDataAsZip(es, imgs, t) ==
  [entries |-> es,
   images |-> [i \in ImageIds |->
                 IF imgs[i] # NoImage /\ es[imgs[i].entryDate] # NoEntry
                    /\ es[imgs[i].entryDate].deletedAt = 0 /\ imgs[i].deletedAt = 0
                 THEN [entryDate |-> imgs[i].entryDate, dev |-> imgs[i].dev,
                       deletedAt |-> 0, updatedAt |-> 0]
                 ELSE NoImage],
   exportDate |-> t]

\* getLocalDataSummary: counts of live entries
getLocalDataSummary(es) ==
  [entryCount |-> Cardinality({k \in Keys : es[k] # NoEntry /\ es[k].deletedAt = 0})]

\* a plausible slip: a local entry with the later updatedAt is kept
importUserDataNewerWins(es, snapshot) ==
  [k \in DOMAIN es |-> IF snapshot.entries[k] # NoEntry
                     /\ snapshot.entries[k].updatedAt >= es[k].updatedAt
                  THEN snapshot.entries[k] ELSE es[k]]

\* importUserData(userId, zip, merge = true): put every entry of the archive
importUserDataMerge(es, snapshot) ==
  [k \in DOMAIN es |-> IF snapshot.entries[k] # NoEntry THEN snapshot.entries[k] ELSE es[k]]

\* the images that the import prepares: those of the archive's live entries
preparedImages(snapshot) ==
  {i \in ImageIds : /\ snapshot.images[i] # NoImage
                    /\ snapshot.entries[snapshot.images[i].entryDate] # NoEntry
                    /\ snapshot.entries[snapshot.images[i].entryDate].deletedAt = 0}

\* the transaction's loop over the prepared images: db.images.put in a
\* try/catch, so a put that fails is logged and the loop goes on
importImages(imgs, snapshot, failed) ==
  [i \in ImageIds |-> IF i \in preparedImages(snapshot) \ failed THEN snapshot.images[i]
                      ELSE imgs[i]]

\* isWifiConnected
isWifiConnected(c) ==
  IF c = "unsupported" THEN TRUE
  ELSE IF c = "saveData" THEN FALSE
  ELSE IF c = "cellular" THEN FALSE
  ELSE TRUE

\* a plausible slip: the exponent starts at one
BackoffDelayFromTwo(i) ==
  IF 1000 * (2 ^ (i + 1)) <= 10000 THEN 1000 * (2 ^ (i + 1)) ELSE 10000

\* retryWithBackoff's delay before retry i+1
BackoffDelay(i) == IF 1000 * (2 ^ i) <= 10000 THEN 1000 * (2 ^ i) ELSE 10000

FreeAct == [pc |-> "free", silent |-> FALSE, resolution |-> NULL,
            caller |-> 0, t0 |-> 0, remoteMeta |-> NoFile, tries |-> 0,
            blob |-> NoSnapshot, snapshot |-> NoSnapshot, uploaded |-> NoFile,
            newMeta |-> NoMeta, localTs |-> 0, syncTs |-> 0, branch |-> NULL,
            nUp |-> 0, nDown |-> 0, nImp |-> 0, nMeta |-> 0,
            before |-> [k \in Keys |-> NoEntry], delay |-> 0, errs |-> <<>>]

NoRequest == [id |-> 0, timestamp |-> 0, options |-> [silent |-> FALSE, isManual |-> FALSE],
              requeued |-> FALSE]

\* an 'online' handler: the requests of its copy still to run, the one it has
\* passed to autoSync; history: the copy it took and how many it has passed on
FreeHandler == [pc |-> "free", queue |-> <<>>, handed |-> NoRequest, copy |-> <<>>, k |-> 0]

\* skipped counts the queued requests that autoSync returned or threw on without
\* starting an attempt in this step; left is what the handler had not yet
\* passed on when it issued its fresh sync
NoCall == [kind |-> NULL, caller |-> 0, silent |-> FALSE, isManual |-> FALSE,
           resolution |-> NULL, offline |-> FALSE, syncing |-> FALSE, gated |-> FALSE,
           outcome |-> NULL, queued |-> FALSE, threw |-> FALSE, skipped |-> 0, left |-> 0]

NoEnd == [caller |-> 0, t0 |-> 0, silent |-> FALSE, resolution |-> NULL, branch |-> NULL,
          outcome |-> NULL, threw |-> FALSE, nUp |-> 0, nDown |-> 0, nImp |-> 0,
          nMeta |-> 0, remoteMeta |-> NoFile, uploaded |-> NoFile,
          localTs |-> 0, syncTs |-> 0, metaAfter |-> NoMeta,
          lastSyncAfter |-> 0, details |-> FALSE, tries |-> 0, errs |-> <<>>]

\* the fields of the engine that a synchronous call chain reads and changes
Engine == [isOnline |-> isOnline, status |-> status, lastError |-> lastError, conflictDetails |-> conflictDetails,
           lastSyncTime |-> lastSyncTime,
           pendingQueue |-> pendingQueue, storedQueue |-> storedQueue,
           act |-> act, onl |-> onl, signInWaiter |-> signInWaiter,
           listeners |-> listeners, received |-> received, notice |-> notice,
           lastCall |-> NoCall, lastEnd |-> NoEnd, ok |-> TRUE]

\* what a listener has before its first call
NoState == [status |-> NULL, lastSyncTime |-> 0, lastError |-> NULL, isOnline |-> FALSE,
            conflictDetails |-> NoDetails]

\* a plausible slip: the state is built without the conflict details
getStateNoDetails(e) ==
  [status |-> e.status, lastSyncTime |-> e.lastSyncTime, lastError |-> e.lastError,
   isOnline |-> e.isOnline, conflictDetails |-> NoDetails]

\* getState
getState(e) ==
  [status |-> e.status, lastSyncTime |-> e.lastSyncTime, lastError |-> e.lastError,
   isOnline |-> e.isOnline, conflictDetails |-> e.conflictDetails]

\* notifyListeners: every listener of the array is called with getState()
notifyListeners(e) ==
  [e EXCEPT !.received = [l \in Listeners |->
                            IF l \in e.listeners THEN getState(e) ELSE e.received[l]],
            !.notice = IF e.notice = "missed" THEN "missed" ELSE "none"]

\* history: status or isOnline has just changed; the change is owed to the
\* listeners, and missed when the change before it is still owed
Changed(e) ==
  [e EXCEPT !.notice = IF e.notice = "none" THEN "owed" ELSE "missed"]

\* setStatus: the three fields, then notifyListeners unless the status is
\* SUCCESS
setStatus(e, s, error, details) ==
  LET e1 == [e EXCEPT !.status = s, !.lastError = error, !.conflictDetails = details]
      e2 == IF s # e.status THEN Changed(e1) ELSE e1
  IN IF s # SUCCESS THEN notifyListeners(e2) ELSE e2

\* a plausible slip: the new request is not written to localStorage
addToQueueUnsaved(e, options, fromDrain) ==
  LET req == [id |-> now, timestamp |-> now, options |-> options, requeued |-> fromDrain]
  IN [e EXCEPT !.pendingQueue = Append(e.pendingQueue, req),
               !.ok = e.ok /\ Len(e.pendingQueue) < MaxQueue]

\* addToQueue + saveQueueToStorage
addToQueue(e, options, fromDrain) ==
  LET req == [id |-> now, timestamp |-> now, options |-> options, requeued |-> fromDrain]
      q == Append(e.pendingQueue, req)
  IN notifyListeners([e EXCEPT !.pendingQueue = q, !.storedQueue = q,
                               !.ok = e.ok /\ Len(e.pendingQueue) < MaxQueue])

\* the lowest free slot for a suspended invocation (slots are interchangeable)
FreeSlot(e) == CHOOSE a \in Acts : e.act[a].pc = "free" /\ \A b \in Acts : e.act[b].pc = "free" => a <= b
HasFreeSlot(e) == \E a \in Acts : e.act[a].pc = "free"

\* an invocation of autoSync suspends at its first await
Suspend(e, o, caller, pc) ==
  IF HasFreeSlot(e)
  THEN [e EXCEPT !.act[FreeSlot(e)] =
          [FreeAct EXCEPT !.pc = pc, !.silent = o.silent, !.resolution = o.resolution,
                          !.caller = caller, !.t0 = now],
                 !.signInWaiter = IF pc = "signin" THEN FreeSlot(e) ELSE e.signInWaiter]
  ELSE [e EXCEPT !.ok = FALSE]

\* a plausible slip: the check is left out
AlreadySyncingIgnored(e) == FALSE

\* autoSync's check against a second attempt: this.status === SyncStatus.SYNCING
AlreadySyncing(e) == e.status = SYNCING

\* autoSync({silent, isManual, resolution}) from its entry to its first await:
\* the settings check, Wi-Fi gating, the Syncing check, the offline branch with
\* addToQueue, the authentication branch and setStatus(SYNCING).
\* settled = the call returned or threw without suspending.
autoSync(e, o, kind, caller) ==
  LET call == [kind |-> kind, caller |-> caller, silent |-> o.silent,
               isManual |-> o.isManual,
               resolution |-> o.resolution, offline |-> ~e.isOnline,
               syncing |-> e.status = SYNCING,
               gated |-> wifiOnly /\ ~isWifiConnected(connection),
               outcome |-> NULL, queued |-> FALSE, threw |-> FALSE,
               skipped |-> e.lastCall.skipped, left |-> 0]
      Ret(e1, outcome, queued, threw) ==
        [e |-> [e1 EXCEPT !.lastCall =
                  [call EXCEPT !.outcome = outcome, !.queued = queued, !.threw = threw,
                               !.skipped = IF kind = "queue" THEN @ + 1 ELSE @]],
         settled |-> TRUE]
      Go(e1, outcome) ==
        [e |-> [e1 EXCEPT !.lastCall = [call EXCEPT !.outcome = outcome]],
         settled |-> FALSE]
  IN
  IF ~autoSyncEnabled /\ ~o.isManual /\ o.silent THEN Ret(e, "disabled", FALSE, FALSE)
  ELSE IF wifiOnly /\ ~isWifiConnected(connection) THEN Ret(e, "wifi", FALSE, ~o.silent)
  ELSE IF AlreadySyncing(e) THEN Ret(e, "dropped", FALSE, FALSE)
  ELSE IF ~e.isOnline THEN
    Ret(IF o.isManual
        THEN addToQueue(e, [silent |-> o.silent, isManual |-> o.isManual], caller # 0)
        ELSE e,
        "offline", o.isManual, ~o.silent)
  ELSE IF ~accessToken THEN
    IF o.silent THEN Ret(e, "noauth", FALSE, FALSE)
    ELSE Go(Suspend(e, o, caller, "signin"), "signin")
  ELSE Go(Suspend(setStatus(e, SYNCING, NULL, NoDetails), o, caller, "getMeta"),
          "start")

\* a plausible slip: the newest request first
NextRequestNewest(q) == [request |-> q[Len(q)], rest |-> SubSeq(q, 1, Len(q) - 1)]

\* for (const request of queue): the requests in the order of the array
NextRequest(q) == [request |-> Head(q), rest |-> Tail(q)]

\* the 'online' handler from processPendingQueue's loop on: each queued request
\* is passed to autoSync and awaited; after the last one the fresh sync is
\* issued (not awaited) when autoSyncEnabled is set
RECURSIVE Drain(_, _, _)
Drain(e, h, q) ==
  IF q = <<>>
  THEN LET e1 == [e EXCEPT !.onl[h] = FreeHandler]
           fresh == autoSync(e1, [silent |-> TRUE, isManual |-> FALSE, resolution |-> NULL],
                             "online", 0).e
       IN IF autoSyncEnabled
          THEN [fresh EXCEPT !.lastCall.left = Len(e.onl[h].copy) - e.onl[h].k]
          ELSE e1
  ELSE LET request == NextRequest(q).request
           rest == NextRequest(q).rest
           e1 == [e EXCEPT !.onl[h] = [pc |-> "waiting", queue |-> rest,
                                        handed |-> request, copy |-> e.onl[h].copy,
                                        k |-> e.onl[h].k + 1]]
           r == autoSync(e1, [silent |-> request.options.silent,
                              isManual |-> request.options.isManual,
                              resolution |-> NULL], "queue", h)
       IN IF r.settled THEN Drain(r.e, h, rest) ELSE r.e

\* processPendingQueue: copy the queue, empty and save the original
processPendingQueue(e, h) ==
  IF e.pendingQueue = <<>> THEN Drain(e, h, <<>>)
  ELSE Drain(notifyListeners([e EXCEPT !.pendingQueue = <<>>, !.storedQueue = <<>>,
                                       !.onl[h].copy = e.pendingQueue]),
             h, e.pendingQueue)

\* an attempt ends: its promise settles and, when an 'online' handler awaits
\* it, the handler goes on with the next queued request
Finish(e, a, outcome, threw) ==
  LET x == e.act[a]
      end == [caller |-> x.caller, t0 |-> x.t0, silent |-> x.silent,
              resolution |-> x.resolution,
              branch |-> x.branch, outcome |-> outcome, threw |-> threw,
              nUp |-> x.nUp, nDown |-> x.nDown, nImp |-> x.nImp, nMeta |-> x.nMeta,
              remoteMeta |-> x.remoteMeta, uploaded |-> x.uploaded,
              localTs |-> x.localTs, syncTs |-> x.syncTs,
              metaAfter |-> meta', lastSyncAfter |-> lastSyncTime',
              details |-> e.conflictDetails.present, tries |-> x.tries, errs |-> x.errs]
      e1 == [e EXCEPT !.act[a] = FreeAct, !.lastEnd = end]
  IN IF x.caller # 0 THEN Drain(e1, x.caller, e1.onl[x.caller].queue) ELSE e1

\* the catch block of autoSync: setStatus(ERROR, message), rethrow unless silent
Fail(e, a, message) ==
  Finish(setStatus(e, ERROR, message, NoDetails), a, ERROR, ~e.act[a].silent)

\* a step that makes no autoSync call and ends no attempt
NoEvent == lastCall' = NoCall /\ lastEnd' = NoEnd

Commit(e) ==
  /\ e.ok
  /\ status' = e.status
  /\ lastError' = e.lastError
  /\ conflictDetails' = e.conflictDetails
  /\ pendingQueue' = e.pendingQueue
  /\ storedQueue' = e.storedQueue
  /\ act' = e.act
  /\ onl' = e.onl
  /\ signInWaiter' = e.signInWaiter
  /\ listeners' = e.listeners
  /\ received' = e.received
  /\ notice' = e.notice
  /\ lastCall' = e.lastCall
  /\ lastEnd' = e.lastEnd

settingsVars == <<autoSyncEnabled, wifiOnly, syncOnSave>>
dropboxVars == <<dropbox, encryptionPassword, dbxLast>>
retentionVars == <<drive, gd, created, gdLast>>
debounceVars == <<timeouts, debounceTimerId, saveLog, fireLog>>
replicaVars == <<replica, cloud, repLast>>
userVars == <<userId>>

\* The installations of the account, and the entry dates they write.
Devices == {"A", "B"}
Dates == {"d1", "d2"}
NoStore == [entries |-> [k \in Dates |-> NoEntry], images |-> NoImages,
            lastSyncAt |-> 0, remoteFileId |-> 0, status |-> IDLE]
NoRepStep == [op |-> "none", dev |-> NULL, branch |-> NULL, resolution |-> NULL, edits |-> 0]

\* No upload is under way; no step of one was taken.
NoUpload == [pc |-> "idle", file |-> 0, toDelete |-> <<>>, removed |-> 0, failed |-> FALSE]
NoGdStep == [op |-> "none", outcome |-> "none", file |-> 0, removed |-> 0, retry |-> FALSE]

\* Bytes that hold nothing.
NoBytes == [len |-> 0, salt |-> 0, key |-> NULL, data |-> NULL]

\* No call to the Dropbox service has been made yet.
NoDbxCall == [op |-> "none", outcome |-> "none", fileId |-> 0, name |-> NULL,
              sent |-> NULL, blob |-> NoBytes, password |-> NULL]
dataVars == <<files, entries, images, meta, lastSyncTime, remoteFileId>>

\* ------------------------------------------------------------------ Init
InitEngine ==
  /\ now = 1
  /\ status = IDLE
  /\ lastSyncTime = 0
  /\ remoteFileId = 0
  /\ lastError = NULL
  /\ conflictDetails = NoDetails
  /\ isOnline = TRUE
  /\ accessToken = TRUE
  /\ pendingQueue = <<>>
  /\ storedQueue = <<>>
  /\ debounceTimer = FALSE
  /\ autoSyncEnabled = TRUE
  /\ connection = "wifi"
  /\ signInWaiter = 0
  /\ listeners = {}
  /\ received = [l \in Listeners |-> NoState]
  /\ notice = "none"
  /\ dropbox = <<>>
  /\ encryptionPassword = NULL
  /\ dbxLast = NoDbxCall
  /\ drive = <<>>
  /\ gd = NoUpload
  /\ created = [self |-> 0, other |-> 0]
  /\ gdLast = NoGdStep
  /\ timeouts = {}
  /\ debounceTimerId = 0
  /\ saveLog = <<>>
  /\ fireLog = <<>>
  /\ replica = [d \in Devices |-> NoStore]
  /\ cloud = NoFile
  /\ repLast = NoRepStep
  /\ files = <<>>
  /\ entries = [k \in Keys |-> NoEntry]
  /\ images = NoImages
  /\ meta = NoMeta
  /\ act = [a \in Acts |-> FreeAct]
  /\ onl = [h \in Handlers |-> FreeHandler]
  /\ panel = NoFile
  /\ lastCall = NoCall
  /\ lastEnd = NoEnd

\* a signed-in user with automatic sync on, no Wi-Fi restriction, no sync on save
Init == InitEngine /\ wifiOnly = FALSE /\ syncOnSave = FALSE /\ userId = USER

\* the same, with the Wi-Fi restriction set or not
InitQueue == InitEngine /\ wifiOnly \in BOOLEAN /\ syncOnSave = FALSE /\ userId = USER

\* the same, with sync on save
InitPanel == InitEngine /\ wifiOnly = FALSE /\ syncOnSave = TRUE /\ userId = USER

\* -------------------------------------------------------------- triggers
Call(o, kind) ==
  /\ Commit(autoSync(Engine, o, kind, 0).e)
  /\ UNCHANGED <<now, isOnline, connection, accessToken, settingsVars, dropboxVars, retentionVars, debounceVars, replicaVars, userVars, dataVars, panel>>

\* setInterval callback of startAutoSyncTimer
TimerFire ==
  /\ autoSyncEnabled
  /\ Call([silent |-> TRUE, isManual |-> FALSE, resolution |-> NULL], "timer")
  /\ UNCHANGED debounceTimer

\* setTimeout callback of debouncedSyncAfterSave
DebounceFire ==
  /\ debounceTimer
  /\ debounceTimer' = FALSE
  /\ Call([silent |-> TRUE, isManual |-> FALSE, resolution |-> NULL], "debounce")

\* manualSync(): autoSync({silent: false, isManual: true}); the panel's sync
\* button makes the same call (and is disabled while the status is Syncing)
ManualSync ==
  /\ Call([silent |-> FALSE, isManual |-> TRUE, resolution |-> NULL], "manual")
  /\ UNCHANGED debounceTimer

\* handleAuthenticated / handleImportZip: triggerSync({silent: false})
LoginSync ==
  /\ Call([silent |-> FALSE, isManual |-> FALSE, resolution |-> NULL], "login")
  /\ UNCHANGED debounceTimer

\* handleRestore: triggerSync({silent: true, isManual: true})
RestoreSync ==
  /\ Call([silent |-> TRUE, isManual |-> TRUE, resolution |-> NULL], "restore")
  /\ UNCHANGED debounceTimer

\* handleResolveConflict: the dialog is shown while status is Conflict with details
ResolveConflict ==
  /\ status = CONFLICT
  /\ conflictDetails.present
  /\ \E r \in {"push", "pull"} :
       Call([silent |-> FALSE, isManual |-> TRUE, resolution |-> r], "resolve")
  /\ UNCHANGED debounceTimer

\* handleCloseConflictModal: syncManager.setStatus(IDLE)
CloseConflictModal ==
  /\ status = CONFLICT
  /\ conflictDetails.present
  /\ Commit(setStatus(Engine, IDLE, NULL, NoDetails))
  /\ UNCHANGED <<now, isOnline, connection, accessToken, settingsVars, dropboxVars, retentionVars, debounceVars, replicaVars, userVars, dataVars, panel,
                 debounceTimer>>

\* ------------------------------------------------- sign-in (googleDrive.js)
\* The token client has one pair of promise handlers; every signIn call
\* replaces it, so the callback settles the promise of the latest caller only.

\* the token callback with an access token
SignInResolve ==
  /\ signInWaiter # 0
  /\ accessToken' = TRUE
  /\ IF signInWaiter = PANEL THEN Commit([Engine EXCEPT !.signInWaiter = 0])
     ELSE IF act[signInWaiter].pc = "signin"
     THEN Commit([setStatus(Engine, SYNCING, NULL, NoDetails)
                    EXCEPT !.act[signInWaiter].pc = "getMeta", !.signInWaiter = 0])
     ELSE Commit([Engine EXCEPT !.act[signInWaiter].pc = "upload", !.signInWaiter = 0])
  /\ UNCHANGED <<now, isOnline, connection, settingsVars, dropboxVars, retentionVars, debounceVars, replicaVars, userVars, dataVars, panel, debounceTimer>>

\* retryWithBackoff's catch in iteration i = tries: rethrow on the last
\* iteration, else arm a timer with the backoff delay and go round again;
\* errs is the history of the errors caught
Retry(e, a, backoffPc, message) ==
  LET e1 == [e EXCEPT !.act[a].errs = Append(e.act[a].errs, message)]
  IN IF e.act[a].tries = MaxRetries - 1
     THEN Fail(e1, a, message)
     ELSE [e1 EXCEPT !.act[a].pc = backoffPc, !.act[a].tries = e.act[a].tries + 1,
                     !.act[a].delay = BackoffDelay(e.act[a].tries)]

\* the token callback with an error
SignInReject ==
  /\ signInWaiter # 0
  /\ UNCHANGED <<now, isOnline, connection, accessToken, settingsVars, dropboxVars, retentionVars, debounceVars, replicaVars, userVars, dataVars, panel,
                 debounceTimer>>
  /\ IF signInWaiter = PANEL THEN Commit([Engine EXCEPT !.signInWaiter = 0])
     ELSE IF act[signInWaiter].pc = "signin"
     THEN Commit(Finish([Engine EXCEPT !.signInWaiter = 0], signInWaiter,
                        "rejected", TRUE))
     ELSE Commit(Retry([Engine EXCEPT !.signInWaiter = 0], signInWaiter,
                       "backoffPush", "signin"))

\* handleSignIn of the backup panel
PanelSignIn ==
  /\ ~accessToken
  /\ signInWaiter' = PANEL
  /\ NoEvent
  /\ UNCHANGED <<now, status, lastSyncTime, remoteFileId, lastError, conflictDetails,
                 isOnline, pendingQueue, storedQueue, debounceTimer, settingsVars, dropboxVars, retentionVars, debounceVars, replicaVars, userVars,
                 connection, accessToken, files, entries, images, meta, act, onl, panel,
                 listeners, received, notice>>

\* ----------------------------------------------------- the attempt's steps
Unchanged1 == UNCHANGED <<now, isOnline, connection, accessToken, settingsVars, dropboxVars, retentionVars, debounceVars, replicaVars, userVars, panel,
                          debounceTimer>>

\* getSyncFileMetadata answers: the newest backup file or null
GetMetaOK(a) ==
  /\ act[a].pc = "getMeta"
  /\ isOnline /\ accessToken
  /\ Commit([Engine EXCEPT !.act[a].pc = "getLocalTs",
                           !.act[a].remoteMeta = IF files = <<>> THEN NoFile ELSE Head(files)])
  /\ Unchanged1 /\ UNCHANGED dataVars

\* what getSyncFileMetadata rejects with: an Error of the adapter (not signed
\* in), whose message is given to setStatus, or the response object of the
\* rejected files.list request, which has no message property (the message is
\* in result.error), so that setStatus receives undefined and stores null
MetadataErrors == {"metadata", NULL}

\* getSyncFileMetadata rejects
GetMetaFail(a) ==
  /\ act[a].pc = "getMeta"
  /\ UNCHANGED dataVars
  /\ \E message \in MetadataErrors : Commit(Fail(Engine, a, message))
  /\ Unchanged1

\* the checks at the head of pullSync and pushSync
TransferAllowed == isOnline /\ accessToken

\* a plausible slip: the newer remote side wins instead of the conflict
DirectionRemoteWins(resolution, isRemoteNewer, isLocalNewer) ==
  IF resolution = "push" THEN "push"
  ELSE IF resolution = "pull" THEN "pull"
  ELSE IF isRemoteNewer THEN "pull"
  ELSE IF isLocalNewer THEN "push"
  ELSE "noop"

\* steps 3 to 5 of autoSync: a given resolution first, then the conflict, then
\* the newer side, else nothing to transfer
Direction(resolution, isRemoteNewer, isLocalNewer) ==
  IF resolution = "push" THEN "push"
  ELSE IF resolution = "pull" THEN "pull"
  ELSE IF isRemoteNewer /\ isLocalNewer THEN "conflict"
  ELSE IF isRemoteNewer THEN "pull"
  ELSE IF isLocalNewer THEN "push"
  ELSE "noop"

\* a plausible slip: the no-op branch writes no new sync point
noopMetaStale(t) == NoMeta

\* the no-op branch: updateSyncMetadata({lastSyncAt: now})
noopMeta(t) == [NoMeta EXCEPT !.lastSyncAt = t]

\* getLatestLocalTimestamp answers (null when the engine has no userId); the
\* direction is decided; performPull / performPush (pushSync throws without a
\* userId) / the conflict branch / the no-op branch run to their first await
Decide(a) ==
  /\ act[a].pc = "getLocalTs"
  /\ UNCHANGED dataVars
  /\ LET x == act[a]
         remoteModifiedTime == x.remoteMeta.modifiedTime
         localModifiedTime == IF userId = NULL THEN 0 ELSE getLatestLocalTimestamp(entries)
         lastSyncTimestamp == lastSyncTime
         isRemoteNewer == remoteModifiedTime > lastSyncTimestamp
         isLocalNewer == localModifiedTime > lastSyncTimestamp
         branch == Direction(x.resolution, isRemoteNewer, isLocalNewer)
         e == [Engine EXCEPT !.act[a].branch = branch, !.act[a].localTs = localModifiedTime,
                             !.act[a].syncTs = lastSyncTimestamp]
     IN IF branch = "push"
        THEN IF TransferAllowed /\ userId # NULL
             THEN Commit([e EXCEPT !.act[a].pc = "export"])
             ELSE Commit(Fail(e, a, "push"))
        ELSE IF branch = "pull"
        THEN IF TransferAllowed THEN Commit([e EXCEPT !.act[a].pc = "download"])
             ELSE Commit(Fail(e, a, "pull"))
        ELSE IF branch = "conflict" THEN Commit([e EXCEPT !.act[a].pc = "conflictSummary"])
        ELSE Commit([e EXCEPT !.act[a].pc = "noopMeta",
                              !.act[a].newMeta = noopMeta(now)])
  /\ Unchanged1

\* the conflict branch after getLocalDataSummary and getUser
ConflictEnd(a) ==
  /\ act[a].pc = "conflictSummary"
  /\ UNCHANGED dataVars
  /\ LET details == [present |-> TRUE, remoteMetadata |-> act[a].remoteMeta,
                     localModifiedTime |-> act[a].localTs,
                     entryCount |-> getLocalDataSummary(entries).entryCount]
     IN Commit(Finish(setStatus(Engine, CONFLICT, "conflict", details), a, CONFLICT,
                      FALSE))
  /\ Unchanged1

\* getSyncData answers: the bytes of the newest backup file, or null
DownloadOK(a) ==
  /\ act[a].pc = "download"
  /\ isOnline /\ accessToken
  /\ UNCHANGED dataVars
  /\ IF files = <<>>
     THEN Commit(Finish(notifyListeners(setStatus(Engine, SUCCESS, NULL, NoDetails)),
                        a, SUCCESS, FALSE))
     ELSE Commit([Engine EXCEPT !.act[a].pc = "import", !.act[a].blob = Head(files).content,
                                !.act[a].nDown = act[a].nDown + 1])
  /\ Unchanged1

\* what getSyncData throws: the answer is not ok, or the request fails
DownloadErrors == {"download", "network"}

\* getSyncData throws inside retryWithBackoff
DownloadFail(a) ==
  /\ act[a].pc = "download"
  /\ UNCHANGED dataVars
  /\ \E error \in DownloadErrors : Commit(Retry(Engine, a, "backoffPull", error))
  /\ Unchanged1

\* the backoff delay has passed: the retried function runs again
BackoffElapsed(a) ==
  /\ act[a].pc \in {"backoffPull", "backoffPush"}
  /\ UNCHANGED dataVars
  /\ Commit([Engine EXCEPT !.act[a].pc = IF act[a].pc = "backoffPull" THEN "download"
                                         ELSE "export",
                           !.act[a].delay = 0])
  /\ Unchanged1

\* a plausible slip: the time of the pull instead of the snapshot's modifiedTime
performPullMetaNow(remoteMetadata) ==
  [lastSyncAt |-> now, remoteFileId |-> remoteMetadata.id, lastSyncDeviceId |-> DEVICE]

\* performPull's record for updateSyncMetadata
performPullMeta(remoteMetadata) ==
  [lastSyncAt |-> remoteMetadata.modifiedTime, remoteFileId |-> remoteMetadata.id,
   lastSyncDeviceId |-> DEVICE]

\* importUserData(userId, zip, true) commits; performPull then reads
\* remoteMetadata.modifiedTime and calls updateSyncMetadata
ImportOK(a) ==
  /\ act[a].pc = "import"
  /\ userId # NULL
  /\ entries' = importUserDataMerge(entries, act[a].blob)
  /\ \E failed \in SUBSET preparedImages(act[a].blob) :
       images' = importImages(images, act[a].blob, failed)
  /\ UNCHANGED <<files, meta, lastSyncTime, remoteFileId>>
  /\ LET e == [Engine EXCEPT !.act[a].nImp = act[a].nImp + 1, !.act[a].before = entries]
     IN IF act[a].remoteMeta = NoFile
        THEN Commit(Fail(e, a, "TypeError"))
        ELSE Commit([e EXCEPT !.act[a].pc = "pullMeta",
                              !.act[a].newMeta = performPullMeta(act[a].remoteMeta)])
  /\ Unchanged1

\* importUserData throws (unreadable archive, failed transaction, or no
\* userId: null is no valid part of the key [userId+date]): nothing is written
ImportFail(a) ==
  /\ act[a].pc = "import"
  /\ UNCHANGED dataVars
  /\ Commit(Fail(Engine, a, "import"))
  /\ Unchanged1

\* updateSyncMetadata finds no record to update and writes nothing, and the
\* in-memory fields are assigned all the same
MetaDoneInMemoryOnly(a) ==
  /\ act[a].pc \in {"pullMeta", "pushMeta"}
  /\ lastSyncTime' = act[a].newMeta.lastSyncAt
  /\ remoteFileId' = act[a].newMeta.remoteFileId
  /\ UNCHANGED <<files, entries, images, meta>>
  /\ Commit(Finish(notifyListeners(
                     setStatus([Engine EXCEPT !.act[a].nMeta = act[a].nMeta + 1,
                                              !.lastSyncTime = act[a].newMeta.lastSyncAt],
                               SUCCESS, NULL, NoDetails)),
                   a, SUCCESS, FALSE))
  /\ Unchanged1

\* updateSyncMetadata of performPull / performPush is done; the in-memory
\* fields follow, then setStatus(SUCCESS) and notifyListeners
MetaDone(a) ==
  /\ act[a].pc \in {"pullMeta", "pushMeta"}
  /\ meta' = act[a].newMeta
  /\ lastSyncTime' = act[a].newMeta.lastSyncAt
  /\ remoteFileId' = act[a].newMeta.remoteFileId
  /\ UNCHANGED <<files, entries, images>>
  /\ Commit(Finish(notifyListeners(
                     setStatus([Engine EXCEPT !.act[a].nMeta = act[a].nMeta + 1,
                                              !.lastSyncTime = act[a].newMeta.lastSyncAt],
                               SUCCESS, NULL, NoDetails)),
                   a, SUCCESS, FALSE))
  /\ Unchanged1

\* updateSyncMetadata({lastSyncAt: now}) of the no-op branch is done
NoopMetaDone(a) ==
  /\ act[a].pc = "noopMeta"
  /\ meta' = [meta EXCEPT !.lastSyncAt = act[a].newMeta.lastSyncAt]
  /\ lastSyncTime' = act[a].newMeta.lastSyncAt
  /\ UNCHANGED <<files, entries, images, remoteFileId>>
  /\ Commit(Finish(notifyListeners(
                     setStatus([Engine EXCEPT !.act[a].nMeta = act[a].nMeta + 1,
                                              !.lastSyncTime = act[a].newMeta.lastSyncAt],
                               SUCCESS, NULL, NoDetails)),
                   a, SUCCESS, FALSE))
  /\ Unchanged1

\* pushSync's retried function up to the upload request: getLocalDataSummary,
\* exportUserDataAsZip (an archive with data.json is never under 22 bytes),
\* the SHA-256 of the bytes
ExportDone(a) ==
  /\ act[a].pc = "export"
  /\ UNCHANGED dataVars
  /\ Commit([Engine EXCEPT !.act[a].pc = "upload",
                           !.act[a].snapshot = exportUserDataAsZip(entries, images, now)])
  /\ Unchanged1

\* deleteOldBackups: keep the MAX_BACKUPS_TO_KEEP newest files
deleteOldBackups(fs) ==
  IF Len(fs) > MAX_BACKUPS_TO_KEEP THEN SubSeq(fs, 1, MAX_BACKUPS_TO_KEEP) ELSE fs

\* the file that an upload creates
NewFile(fs, snapshot, dev) ==
  [id |-> Len(fs) + 1, modifiedTime |-> now, contentHash |-> ContentHash(snapshot),
   content |-> snapshot, dev |-> dev]

\* The body of the answer to the multipart POST.  The request names no
\* fields, so which properties of the new file the service reports besides
\* its id is the service's choice: modifiedTime is there or it is not (0).
UploadResponses(file) == {file, [file EXCEPT !.modifiedTime = 0]}

\* performPush's record for updateSyncMetadata
performPushMeta(file) ==
  [lastSyncAt |-> file.modifiedTime, remoteFileId |-> file.id, lastSyncDeviceId |-> DEVICE]

\* syncToGoogleDrive: the multipart POST answers 2xx, old backups are pruned;
\* performPush goes on with the answer: new Date(undefined).toISOString()
\* throws a RangeError, else updateSyncMetadata is awaited
UploadOK(a) ==
  /\ act[a].pc = "upload"
  /\ isOnline /\ accessToken
  /\ Len(files) < MaxFiles
  /\ files' = deleteOldBackups(<<NewFile(files, act[a].snapshot, DEVICE)>> \o files)
  /\ UNCHANGED <<entries, images, meta, lastSyncTime, remoteFileId>>
  /\ \E file \in UploadResponses(NewFile(files, act[a].snapshot, DEVICE)) :
       LET e == [Engine EXCEPT !.act[a].nUp = act[a].nUp + 1, !.act[a].uploaded = file]
       IN IF file.modifiedTime = 0
          THEN Commit(Fail(e, a, "RangeError"))
          ELSE Commit([e EXCEPT !.act[a].pc = "pushMeta",
                                !.act[a].newMeta = performPushMeta(file)])
  /\ Unchanged1

\* syncToGoogleDrive without a valid token first awaits signIn
UploadNeedsSignIn(a) ==
  /\ act[a].pc = "upload"
  /\ ~accessToken
  /\ UNCHANGED dataVars
  /\ Commit([Engine EXCEPT !.act[a].pc = "upSignin", !.signInWaiter = a])
  /\ Unchanged1

\* what syncToGoogleDrive rejects with: a network error, or a non-2xx answer
\* with the provider's message, such as 403 for an exceeded storage quota or
\* a missing permission
UploadErrors == {"upload", "quota"}

\* the upload fails inside retryWithBackoff
UploadFail(a) ==
  /\ act[a].pc = "upload"
  /\ UNCHANGED dataVars
  /\ \E error \in UploadErrors : Commit(Retry(Engine, a, "backoffPush", error))
  /\ Unchanged1

\* ------------------------------------------------------------ environment
engineVars == <<status, lastError, conflictDetails, pendingQueue, storedQueue, act, onl,
                listeners, received, notice,
                signInWaiter>>

\* the clock advances
Tick ==
  /\ now < MaxTime
  /\ now' = now + 1
  /\ NoEvent
  /\ UNCHANGED <<engineVars, isOnline, connection, accessToken, settingsVars, dropboxVars, retentionVars, debounceVars, replicaVars, userVars, dataVars,
                 panel, debounceTimer>>

\* window 'online': isOnline = true, then the queue, then the fresh sync
OnlineEvent ==
  /\ ~isOnline
  /\ isOnline' = TRUE
  /\ \E h \in Handlers :
       /\ onl[h].pc = "free"
       /\ \A g \in Handlers : onl[g].pc = "free" => h <= g
       /\ Commit(processPendingQueue(
                   notifyListeners(Changed([Engine EXCEPT !.isOnline = TRUE])), h))
  /\ UNCHANGED <<now, connection, accessToken, settingsVars, dropboxVars, retentionVars, debounceVars, replicaVars, userVars, dataVars, panel, debounceTimer>>

\* window 'offline'
OfflineEvent ==
  /\ isOnline
  /\ isOnline' = FALSE
  /\ Commit(notifyListeners(Changed([Engine EXCEPT !.isOnline = FALSE])))
  /\ UNCHANGED <<now, connection, accessToken, settingsVars, dropboxVars, retentionVars, debounceVars, replicaVars, userVars, dataVars, panel,
                 debounceTimer>>

\* the access token expires or is revoked (signOut)
TokenExpire ==
  /\ accessToken
  /\ accessToken' = FALSE
  /\ NoEvent
  /\ UNCHANGED <<engineVars, now, isOnline, connection, settingsVars, dropboxVars, retentionVars, debounceVars, replicaVars, userVars, dataVars, panel,
                 debounceTimer>>

\* what navigator.connection reports in these runs
Connections == {"wifi", "cellular", "saveData"}

\* the network class changes
ConnectionChange ==
  /\ wifiOnly
  /\ connection' \in Connections \ {connection}
  /\ NoEvent
  /\ UNCHANGED <<engineVars, now, isOnline, accessToken, settingsVars, dropboxVars, retentionVars, debounceVars, replicaVars, userVars, dataVars, panel,
                 debounceTimer>>

\* debouncedSyncAfterSave: rearm the timer when syncOnSave is set
Rearm == IF syncOnSave THEN TRUE ELSE debounceTimer

\* handleSave: saveEntryWithImages, then triggerDebouncedSync
\* saveEntryWithImages deletes the images of the entry that the editor does
\* not list (it lists those that are not soft-deleted) and puts the entry
LocalSave ==
  /\ \E k \in Keys, t \in Titles :
       /\ entries' = [entries EXCEPT ![k] = [title |-> t, updatedAt |-> now, deletedAt |-> 0]]
       /\ images' = [i \in ImageIds |->
                       IF images[i].entryDate = k /\ images[i].deletedAt # 0
                       THEN NoImage ELSE images[i]]
  /\ debounceTimer' = Rearm
  /\ NoEvent
  /\ UNCHANGED <<engineVars, now, isOnline, connection, accessToken, settingsVars, dropboxVars, retentionVars, debounceVars, replicaVars, userVars, files,
                 meta, lastSyncTime, remoteFileId, panel>>

\* handleSave with a new image file: the same, and db.images.add gives the
\* image the next id of the table
LocalSaveImage ==
  /\ \E k \in Keys, t \in Titles, n \in ImageIds :
       /\ images[n] = NoImage
       /\ \A i \in ImageIds : images[i] # NoImage => i < n
       /\ entries' = [entries EXCEPT ![k] = [title |-> t, updatedAt |-> now, deletedAt |-> 0]]
       /\ images' = [i \in ImageIds |->
                       IF i = n
                       THEN [entryDate |-> k, dev |-> DEVICE, deletedAt |-> 0, updatedAt |-> 0]
                       ELSE IF images[i].entryDate = k /\ images[i].deletedAt # 0
                       THEN NoImage ELSE images[i]]
  /\ debounceTimer' = Rearm
  /\ NoEvent
  /\ UNCHANGED <<engineVars, now, isOnline, connection, accessToken, settingsVars, dropboxVars, retentionVars, debounceVars, replicaVars, userVars, files,
                 meta, lastSyncTime, remoteFileId, panel>>

\* handleDelete: deleteEntry stamps deletedAt and updatedAt on the entry and
\* on every image of it, then triggerDebouncedSync
LocalDelete ==
  /\ \E k \in Keys :
       /\ entries[k] # NoEntry /\ entries[k].deletedAt = 0
       /\ entries' = [entries EXCEPT ![k].deletedAt = now, ![k].updatedAt = now]
       /\ images' = [i \in ImageIds |->
                       IF images[i].entryDate = k
                       THEN [images[i] EXCEPT !.deletedAt = now, !.updatedAt = now]
                       ELSE images[i]]
  /\ debounceTimer' = Rearm
  /\ NoEvent
  /\ UNCHANGED <<engineVars, now, isOnline, connection, accessToken, settingsVars, dropboxVars, retentionVars, debounceVars, replicaVars, userVars, files,
                 meta, lastSyncTime, remoteFileId, panel>>

\* handleDeleteExistingImage of the editor: deleteImage stamps deletedAt and
\* updatedAt on the image record; no sync is triggered
DeleteImage ==
  /\ \E i \in ImageIds :
       /\ images[i] # NoImage /\ images[i].deletedAt = 0
       /\ images' = [images EXCEPT ![i].deletedAt = now, ![i].updatedAt = now]
  /\ NoEvent
  /\ UNCHANGED <<engineVars, now, isOnline, connection, accessToken, settingsVars, dropboxVars, retentionVars, debounceVars, replicaVars, userVars, files,
                 entries, meta, lastSyncTime, remoteFileId, panel, debounceTimer>>

\* importUserData(userId, zip, merge = false) on an archive of the folder:
\* the user's entries and images are deleted, then every entry of the
\* archive is put and every prepared image, each put of an image in its own
\* try/catch; history: lastEnd.nImp counts the images put
RestoreReplace ==
  /\ \E n \in 1..Len(files) : \E failed \in SUBSET preparedImages(files[n].content) :
       /\ entries' = files[n].content.entries
       /\ images' = importImages(NoImages, files[n].content, failed)
       /\ lastEnd' = [NoEnd EXCEPT !.outcome = "restored", !.nDown = n,
                                   !.nImp = Cardinality(preparedImages(files[n].content)
                                                        \ failed)]
  /\ lastCall' = NoCall
  /\ UNCHANGED <<engineVars, now, isOnline, connection, accessToken, settingsVars, dropboxVars, retentionVars, debounceVars, replicaVars, userVars, files,
                 meta, lastSyncTime, remoteFileId, panel, debounceTimer>>

\* the archives another device of the account can upload
OtherSnapshots ==
  {[entries |-> es, images |-> NoImages, exportDate |-> now] :
     es \in [Keys -> {NoEntry} \cup
                     {[title |-> "B", updatedAt |-> u, deletedAt |-> 0] : u \in 1..now}]}

\* another device uploads a snapshot
OtherDeviceUpload ==
  /\ Len(files) < MaxFiles
  /\ \E sn \in OtherSnapshots : files' = <<NewFile(files, sn, "other")>> \o files
  /\ NoEvent
  /\ UNCHANGED <<engineVars, now, isOnline, connection, accessToken, settingsVars, dropboxVars, retentionVars, debounceVars, replicaVars, userVars, entries,
                 images, meta, lastSyncTime, remoteFileId, panel, debounceTimer>>

\* the archives with images that another device of the account can upload:
\* every image belongs to a live entry of the archive
OtherSnapshotsMedia ==
  {sn \in {[entries |-> o.entries, images |-> im, exportDate |-> now] :
             o \in OtherSnapshots,
             im \in [ImageIds -> {NoImage} \cup
                                  {[entryDate |-> k, dev |-> "other", deletedAt |-> 0,
                                    updatedAt |-> 0] : k \in Keys}]} :
     /\ sn.images # NoImages
     /\ \A i \in ImageIds : sn.images[i] # NoImage =>
                               sn.entries[sn.images[i].entryDate] # NoEntry}

\* another device uploads a snapshot that holds images
OtherDeviceUploadMedia ==
  /\ Len(files) < MaxFiles
  /\ \E sn \in OtherSnapshotsMedia : files' = <<NewFile(files, sn, "other")>> \o files
  /\ NoEvent
  /\ UNCHANGED <<engineVars, now, isOnline, connection, accessToken, settingsVars, dropboxVars, retentionVars, debounceVars, replicaVars, userVars, entries,
                 images, meta, lastSyncTime, remoteFileId, panel, debounceTimer>>

\* handleBackup of the backup panel: export, upload, then notifySyncSuccess
\* is called with the upload result; it returns at once when the result has
\* no modifiedTime, else it awaits updateSyncMetadata
PanelBackup ==
  /\ panel = NoFile
  /\ isOnline /\ accessToken
  /\ Len(files) < MaxFiles
  /\ LET file == NewFile(files, exportUserDataAsZip(entries, images, now), DEVICE)
     IN /\ files' = deleteOldBackups(<<file>> \o files)
        /\ \E result \in UploadResponses(file) :
             panel' = IF result.modifiedTime = 0 THEN NoFile ELSE result
  /\ NoEvent
  /\ UNCHANGED <<engineVars, now, isOnline, connection, accessToken, settingsVars, dropboxVars, retentionVars, debounceVars, replicaVars, userVars, entries,
                 images, meta, lastSyncTime, remoteFileId, debounceTimer>>

\* notifySyncSuccess after updateSyncMetadata: the in-memory fields,
\* setStatus(SUCCESS), notifyListeners
NotifySyncSuccess ==
  /\ panel # NoFile
  /\ meta' = [lastSyncAt |-> panel.modifiedTime, remoteFileId |-> panel.id,
              lastSyncDeviceId |-> DEVICE]
  /\ lastSyncTime' = panel.modifiedTime
  /\ remoteFileId' = panel.id
  /\ panel' = NoFile
  /\ Commit(notifyListeners(setStatus([Engine EXCEPT !.lastSyncTime = panel.modifiedTime],
                                      SUCCESS, NULL, NoDetails)))
  /\ UNCHANGED <<now, isOnline, connection, accessToken, settingsVars, dropboxVars, retentionVars, debounceVars, replicaVars, userVars, files, entries,
                 images, debounceTimer>>

\* a component mounts: its state starts as getState() and its handler is
\* subscribed with addListener
Subscribe(l) ==
  /\ l \notin listeners
  /\ listeners' = listeners \cup {l}
  /\ received' = [received EXCEPT ![l] = getState(Engine)]
  /\ NoEvent
  /\ UNCHANGED <<now, status, lastSyncTime, remoteFileId, lastError, conflictDetails,
                 isOnline, pendingQueue, storedQueue, debounceTimer, settingsVars, dropboxVars, retentionVars, debounceVars, replicaVars, userVars,
                 connection, accessToken, signInWaiter, files, entries, images, meta,
                 act, onl, panel, notice>>

\* the component unmounts: removeListener, and its state is gone
Unsubscribe(l) ==
  /\ l \in listeners
  /\ listeners' = listeners \ {l}
  /\ received' = [received EXCEPT ![l] = NoState]
  /\ NoEvent
  /\ UNCHANGED <<now, status, lastSyncTime, remoteFileId, lastError, conflictDetails,
                 isOnline, pendingQueue, storedQueue, debounceTimer, settingsVars, dropboxVars, retentionVars, debounceVars, replicaVars, userVars,
                 connection, accessToken, signInWaiter, files, entries, images, meta,
                 act, onl, panel, notice>>

\* ------------------------------------------------------------------ Next
\* The signed-in, online engine with the local database and the remote folder:
\* the timer, the sync button, the conflict dialog, every step of an attempt,
\* local saves and uploads of another device.
Next ==
  \/ TimerFire
  \/ ManualSync
  \/ ResolveConflict
  \/ CloseConflictModal
  \/ \E a \in Acts : GetMetaOK(a)
  \/ \E a \in Acts : GetMetaFail(a)
  \/ \E a \in Acts : Decide(a)
  \/ \E a \in Acts : ConflictEnd(a)
  \/ \E a \in Acts : DownloadOK(a)
  \/ \E a \in Acts : DownloadFail(a)
  \/ \E a \in Acts : BackoffElapsed(a)
  \/ \E a \in Acts : ImportOK(a)
  \/ \E a \in Acts : ImportFail(a)
  \/ \E a \in Acts : MetaDone(a)
  \/ \E a \in Acts : NoopMetaDone(a)
  \/ \E a \in Acts : ExportDone(a)
  \/ \E a \in Acts : UploadOK(a)
  \/ \E a \in Acts : UploadFail(a)
  \/ Tick
  \/ LocalSave
  \/ OtherDeviceUpload

Spec == Init /\ [][Next]_vars

\* The same engine beside the backup panel, whose manual backup uploads a
\* snapshot and reports it with notifySyncSuccess, with the token expiring
\* and the sign-in popup; no request fails, and the run is short enough for
\* the clock to stay where it is.
NextPanel ==
  \/ DebounceFire
  \/ LoginSync
  \/ ResolveConflict
  \/ CloseConflictModal
  \/ SignInResolve
  \/ SignInReject
  \/ PanelSignIn
  \/ \E a \in Acts : GetMetaOK(a)
  \/ \E a \in Acts : Decide(a)
  \/ \E a \in Acts : ConflictEnd(a)
  \/ \E a \in Acts : DownloadOK(a)
  \/ \E a \in Acts : ImportOK(a)
  \/ \E a \in Acts : MetaDone(a)
  \/ \E a \in Acts : NoopMetaDone(a)
  \/ \E a \in Acts : ExportDone(a)
  \/ \E a \in Acts : UploadOK(a)
  \/ \E a \in Acts : UploadNeedsSignIn(a)
  \/ TokenExpire
  \/ LocalSave
  \/ PanelBackup
  \/ NotifySyncSuccess

SpecPanel == InitPanel /\ [][NextPanel]_vars

\* The signed-in engine that goes offline and online again: manual triggers
\* are queued offline and the 'online' handler drains the queue.  Local data
\* and the remote folder stay empty, so every attempt that gets through finds
\* nothing to transfer.
NextQueue ==
  \/ TimerFire
  \/ ManualSync
  \/ LoginSync
  \/ RestoreSync
  \/ \E a \in Acts : GetMetaOK(a)
  \/ \E a \in Acts : GetMetaFail(a)
  \/ \E a \in Acts : Decide(a)
  \/ \E a \in Acts : NoopMetaDone(a)
  \/ Tick
  \/ OnlineEvent
  \/ OfflineEvent
  \/ ConnectionChange

SpecQueue == InitQueue /\ [][NextQueue]_vars

\* The signed-in, online engine pulling archives with images that another
\* device uploads: timer attempts, the conflict dialog, every step of a pull
\* and of a push with their failures, and local saves.
NextImport ==
  \/ TimerFire
  \/ ResolveConflict
  \/ \E a \in Acts : GetMetaOK(a)
  \/ \E a \in Acts : Decide(a)
  \/ \E a \in Acts : ConflictEnd(a)
  \/ \E a \in Acts : DownloadOK(a)
  \/ \E a \in Acts : DownloadFail(a)
  \/ \E a \in Acts : BackoffElapsed(a)
  \/ \E a \in Acts : ImportOK(a)
  \/ \E a \in Acts : ImportFail(a)
  \/ \E a \in Acts : MetaDone(a)
  \/ \E a \in Acts : NoopMetaDone(a)
  \/ \E a \in Acts : ExportDone(a)
  \/ \E a \in Acts : UploadOK(a)
  \/ \E a \in Acts : UploadFail(a)
  \/ Tick
  \/ LocalSave
  \/ OtherDeviceUploadMedia

SpecImport == Init /\ [][NextImport]_vars

\* ================================================================= claims
\* lastEnd describes the attempt that ended in the latest step: what it read
\* (remoteMeta, localTs, the sync point syncTs), what it did (nUp, nDown, nImp,
\* nMeta) and how it ended.
Decided == lastEnd.branch # NULL
RemoteNewer == lastEnd.remoteMeta.modifiedTime > lastEnd.syncTs
LocalNewer == lastEnd.localTs > lastEnd.syncTs
NoTransfer == lastEnd.nUp = 0 /\ lastEnd.nDown = 0 /\ lastEnd.nImp = 0
\* the ways a request of a pull and of a push can fail
PullFailures == {"pull", "download", "network", "import"}
PushFailures == {"push", "upload", "quota", "signin"}

\* C2: when the remote snapshot and the local data are both newer than the
\* last sync point and no resolution is given, the attempt ends with status
\* Conflict and populated conflictDetails, having made no upload, no download
\* and no import and having written neither SyncMetadata nor local records.
C2_ConflictEndsWithoutTransfer ==
  (Decided /\ lastEnd.resolution = NULL /\ RemoteNewer /\ LocalNewer) =>
    /\ lastEnd.outcome = CONFLICT
    /\ status = CONFLICT
    /\ conflictDetails.present
    /\ conflictDetails.remoteMetadata = lastEnd.remoteMeta
    /\ conflictDetails.localModifiedTime = lastEnd.localTs
    /\ NoTransfer
    /\ lastEnd.nMeta = 0

C2_Witness ==
  /\ Decided /\ lastEnd.resolution = NULL /\ RemoteNewer /\ LocalNewer
  /\ status = CONFLICT /\ conflictDetails.present

C4_PushSetsUploadedSyncPoint ==
  (Decided /\ lastEnd.resolution = NULL /\ ~RemoteNewer /\ LocalNewer) =>
    /\ lastEnd.nDown = 0 /\ lastEnd.nImp = 0
    /\ \/ /\ lastEnd.outcome = SUCCESS
          /\ status = SUCCESS
          /\ lastEnd.nUp = 1 /\ lastEnd.nMeta = 1
          /\ lastEnd.metaAfter.lastSyncAt = lastEnd.uploaded.modifiedTime
          /\ lastEnd.metaAfter.remoteFileId = lastEnd.uploaded.id
       \/ /\ lastEnd.outcome = ERROR
          /\ lastError \in PushFailures
          /\ lastEnd.nUp = 0 /\ lastEnd.nMeta = 0

\* C6: when neither side is newer, the attempt makes no upload and no
\* download, sets lastSyncAt to the current time and ends in Success.
C6_NoopBumpsSyncPoint ==
  (Decided /\ lastEnd.resolution = NULL /\ ~RemoteNewer /\ ~LocalNewer) =>
    /\ lastEnd.outcome = SUCCESS
    /\ status = SUCCESS
    /\ NoTransfer
    /\ lastEnd.nMeta = 1
    /\ lastEnd.t0 <= lastEnd.metaAfter.lastSyncAt
    /\ lastEnd.metaAfter.lastSyncAt <= now
    /\ lastEnd.lastSyncAfter = lastEnd.metaAfter.lastSyncAt

C6_Witness ==
  /\ Decided /\ lastEnd.resolution = NULL /\ ~RemoteNewer /\ ~LocalNewer
  /\ lastEnd.outcome = SUCCESS /\ files # <<>> /\ lastEnd.t0 = MaxTime

\* C7: with resolution push or pull the attempt performs exactly that
\* direction whatever the timestamps say, never enters Conflict and, unless a
\* request of the transfer fails, ends in Success.  (The statement as the
\* specification gives it.)
C7_ResolutionEndsInSuccess ==
  (Decided /\ lastEnd.resolution # NULL) =>
    /\ lastEnd.outcome # CONFLICT
    /\ lastEnd.resolution = "push" =>
          /\ lastEnd.nDown = 0 /\ lastEnd.nImp = 0
          /\ \/ lastEnd.outcome = SUCCESS /\ lastEnd.nUp = 1
             \/ lastEnd.outcome = ERROR /\ lastError \in PushFailures /\ lastEnd.nUp = 0
    /\ lastEnd.resolution = "pull" =>
          /\ lastEnd.nUp = 0
          /\ \/ lastEnd.outcome = SUCCESS /\ lastEnd.nDown = 1 /\ lastEnd.nImp = 1
             \/ lastEnd.outcome = ERROR /\ lastError \in PullFailures

\* an invocation of autoSync that has passed setStatus(SYNCING) and not ended
InFlight(a) == act[a].pc \notin {"free", "signin"}

\* C1: at most one sync attempt is in flight at any moment, whatever the
\* interleaving of triggers, notifySyncSuccess and the conflict dialog's
\* setStatus(Idle).  (The statement as the specification gives it.)
C1_AtMostOneAttemptInFlight ==
  Cardinality({a \in Acts : InFlight(a)}) <= 1

\* C5: a push whose computed contentHash equals the contentHash of the last
\* known remote snapshot is skipped: no attempt has uploaded an archive whose
\* hash is the hash of the remote snapshot it read in step 1.  (The statement
\* as the specification gives it.)
C5_EqualHashPushIsSkipped ==
  \A a \in Acts :
    act[a].nUp > 0 => ContentHash(act[a].snapshot) # act[a].remoteMeta.contentHash

\* lastCall describes the autoSync call of the latest step: who called, what
\* the call found (offline, status Syncing, the Wi-Fi gate shut) and what it did.
UserManualCall == lastCall.kind # NULL /\ lastCall.isManual /\ lastCall.caller = 0

C10_FailedQueuedRequestIsNotRequeued ==
  \A i \in 1..Len(pendingQueue) : ~pendingQueue[i].requeued

\* the steps of attempt a between its decision and its end
PushStep(a) ==
  act[a].branch = "push" /\
  (ExportDone(a) \/ UploadOK(a) \/ UploadFail(a) \/ BackoffElapsed(a) \/ MetaDone(a))

\* C11: a pull never leaves the local store partially applied: a failed
\* download or import leaves entries and images as they were, a completed
\* import has applied every entry and every image of the archive, and no step
\* of a push changes a local record.  (The statement as the specification
\* gives it.)
C11_PullIsAllOrNothing ==
  [][\A a \in Acts :
       /\ (DownloadFail(a) \/ ImportFail(a)) => UNCHANGED <<entries, images>>
       /\ ImportOK(a) =>
            /\ \A k \in Keys : act[a].blob.entries[k] # NoEntry =>
                                  entries'[k] = act[a].blob.entries[k]
            /\ \A i \in ImageIds : act[a].blob.images[i] # NoImage =>
                                      images'[i] = act[a].blob.images[i]
       /\ PushStep(a) => UNCHANGED <<entries, images>>]_vars

\* C12: a merge import makes every entry whose key is in the archive equal to
\* the archive's entry as a whole, whichever of the two has the later
\* updatedAt, and leaves every entry whose key is not in the archive as it was.
C12_MergeImportReplacesWholeRecords ==
  [][\A a \in Acts :
       ImportOK(a) =>
         \A k \in Keys :
           entries'[k] = IF act[a].blob.entries[k] # NoEntry THEN act[a].blob.entries[k]
                         ELSE entries[k]]_vars

\* an import has just replaced a local entry that had the later updatedAt
C12_Witness ==
  \E a \in Acts, k \in Keys :
    /\ act[a].pc = "pullMeta"
    /\ act[a].blob.entries[k] # NoEntry
    /\ act[a].before[k].updatedAt > act[a].blob.entries[k].updatedAt
    /\ act[a].before[k].title # act[a].blob.entries[k].title
    /\ entries[k] = act[a].blob.entries[k]

\* the errors that end an attempt from inside retryWithBackoff
RetriedFailures == {"download", "network", "upload", "quota", "signin"}

C14_EveryFailingStepIsRetried ==
  (lastEnd.outcome = ERROR /\ lastError \in RetriedFailures \cup {"metadata", "import"}) =>
    lastEnd.tries = MaxRetries - 1

\* C15: a quota or permission failure of the provider is passed through
\* without retry: no attempt goes on after one, and the attempt it ends has
\* run the failing operation once.  (The statement as the specification
\* gives it.)
C15_QuotaFailureIsNotRetried ==
  /\ \A a \in Acts : \A i \in 1..Len(act[a].errs) : act[a].errs[i] # "quota"
  /\ (\E i \in 1..Len(lastEnd.errs) : lastEnd.errs[i] = "quota") => Len(lastEnd.errs) = 1

\* C16: whenever the promise of a non-silent trigger rejects, the engine has
\* first set status Error with lastError describing the failure: a call that
\* throws before its first await, and an attempt of the user's own trigger
\* that ends by throwing, leave status Error and lastError set.  (The
\* statement as the specification gives it.)
C16_RejectionFollowsErrorStatus ==
  /\ (lastCall.kind # NULL /\ lastCall.threw) => (status = ERROR /\ lastError # NULL)
  /\ (lastEnd.threw /\ lastEnd.caller = 0) => (status = ERROR /\ lastError # NULL)

\* C17: a trigger with silent = true never rejects, and a failure during its
\* attempt leaves status Error with lastError set to the failure message.
\* (The statement as the specification gives it.)
C17_SilentTriggerRecordsFailure ==
  /\ (lastCall.kind # NULL /\ lastCall.silent) => ~lastCall.threw
  /\ lastEnd.silent => ~lastEnd.threw
  /\ (lastEnd.silent /\ lastEnd.outcome = ERROR /\ lastEnd.caller = 0) =>
       (status = ERROR /\ lastError # NULL)

\* the edges of the status diagram
StatusEdges ==
  {<<IDLE, SYNCING>>, <<SYNCING, SUCCESS>>, <<SYNCING, ERROR>>, <<SYNCING, CONFLICT>>,
   <<SUCCESS, IDLE>>, <<ERROR, IDLE>>, <<CONFLICT, IDLE>>}

\* C18: the status moves only along Idle -> Syncing, Syncing -> Success |
\* Error | Conflict and Success | Error | Conflict -> Idle; Syncing is never
\* entered directly from Success, Error or Conflict.  (The statement as the
\* specification gives it.)
C18_StatusFollowsDiagram ==
  [][status' # status => <<status, status'>> \in StatusEdges]_vars

\* a step in which a trigger of the user, the timer or the debounce called
\* autoSync while the status was Syncing
TriggerWhileSyncing ==
  lastCall'.kind \notin {NULL, "queue", "online"} /\ lastCall'.caller = 0 /\ lastCall'.syncing

\* C19: a trigger that arrives while status is Syncing is dropped: no
\* invocation is started (so no adapter call is made), status, lastSyncTime,
\* lastError, conflictDetails and SyncMetadata stay as they are, local and
\* remote data are untouched and nothing is added to the pending queue.
C19_TriggerWhileSyncingIsDropped ==
  [][TriggerWhileSyncing =>
       /\ ~lastCall'.queued
       /\ lastCall'.outcome \in {"wifi", "dropped"}
       /\ UNCHANGED <<status, lastSyncTime, lastError, conflictDetails, meta, remoteFileId,
                      pendingQueue, storedQueue, act, onl, files, entries, images>>]_vars

\* a manual trigger has just been dropped, offline, beside a running attempt
C19_Witness ==
  /\ lastCall.kind \in {"manual", "restore"} /\ lastCall.syncing /\ lastCall.offline
  /\ lastCall.outcome = "dropped"
  /\ status = SYNCING /\ pendingQueue = <<>>
  /\ \E a \in Acts : InFlight(a)

\* a step in which a trigger that is not manual called autoSync while Wi-Fi
\* only was set and the connection was cellular or in data-saver mode
GatedNonManualTrigger ==
  /\ lastCall'.kind \notin {NULL, "queue", "online"}
  /\ lastCall'.gated /\ ~lastCall'.isManual

\* C20: with Wi-Fi only set and a cellular or data-saver connection every
\* trigger with isManual false is skipped silently: its promise resolves
\* without error, no invocation is started and status, lastError and
\* SyncMetadata stay as they are.  (The statement as the specification gives
\* it.)
C20_GatedNonManualTriggerIsSilent ==
  [][GatedNonManualTrigger =>
       /\ ~lastCall'.threw
       /\ UNCHANGED <<status, lastError, meta, act, pendingQueue>>]_vars

\* a step in which autoSync found the remote store not authenticated
UnauthenticatedTrigger == lastCall'.kind # NULL /\ lastCall'.outcome \in {"noauth", "signin"}

\* C21: when the remote store is not authenticated a silent trigger aborts
\* without calling signIn and without changing status, and an explicit
\* trigger calls signIn and waits for it; when the token callback then
\* reports an error, every trigger waiting in signIn rejects, without the
\* status having changed and without a metadata read or a transfer.  (The
\* statement as the specification gives it.)
C21_UnauthenticatedTriggerSignsInOnce ==
  [][/\ UnauthenticatedTrigger =>
          /\ status' = status
          /\ lastCall'.silent => (lastCall'.outcome = "noauth" /\ signInWaiter' = signInWaiter)
          /\ ~lastCall'.silent =>
                (signInWaiter' \in Acts /\ act'[signInWaiter'].pc = "signin")
     /\ SignInReject =>
          \A a \in Acts : act[a].pc = "signin" =>
             /\ act'[a].pc = "free"
             /\ lastEnd'.outcome = "rejected" /\ lastEnd'.threw
             /\ lastEnd'.nMeta = 0 /\ lastEnd'.nUp = 0 /\ lastEnd'.nDown = 0
             /\ status' = status]_vars

\* The engine with its listeners: components subscribe and unsubscribe while
\* triggers start attempts that end in Success, Error or Conflict, the
\* network comes and goes and requests are queued and drained.
NextListeners ==
  \/ \E l \in Listeners : Subscribe(l)
  \/ \E l \in Listeners : Unsubscribe(l)
  \/ TimerFire
  \/ ManualSync
  \/ CloseConflictModal
  \/ \E a \in Acts : GetMetaOK(a)
  \/ \E a \in Acts : GetMetaFail(a)
  \/ \E a \in Acts : Decide(a)
  \/ \E a \in Acts : ConflictEnd(a)
  \/ \E a \in Acts : NoopMetaDone(a)
  \/ ResolveConflict
  \/ \E a \in Acts : DownloadOK(a)
  \/ \E a \in Acts : ImportOK(a)
  \/ \E a \in Acts : MetaDone(a)
  \/ \E a \in Acts : ExportDone(a)
  \/ \E a \in Acts : UploadOK(a)
  \/ OnlineEvent
  \/ OfflineEvent
  \/ LocalSave
  \/ OtherDeviceUpload

SpecListeners == Init /\ [][NextListeners]_vars

\* C22: after every change of status and every online/offline change each
\* subscribed listener has been called with a state whose five fields are
\* the engine's current ones, before the next change of status (no change is
\* left owed at the end of a step and none is overtaken by the next); a
\* listener that is not subscribed is not called.
C22_ListenersSeeEveryChange ==
  [][/\ notice' = "none"
     /\ (status' # status \/ isOnline' # isOnline) =>
          \A l \in listeners' :
             received'[l] = [status |-> status', lastSyncTime |-> lastSyncTime',
                             lastError |-> lastError', isOnline |-> isOnline',
                             conflictDetails |-> conflictDetails']
     /\ \A l \in Listeners :
          (l \notin listeners /\ l \notin listeners') => received'[l] = NoState]_vars

\* a conflict has been delivered, with its details, to the one listener that
\* is subscribed, and the other listener has not been called
C22_Witness ==
  /\ status = CONFLICT /\ lastEnd.outcome = CONFLICT
  /\ listeners = {1}
  /\ received[1].status = CONFLICT /\ received[1].conflictDetails = conflictDetails
  /\ conflictDetails # NoDetails
  /\ received[2] = NoState

\* The engine beside the backup panel: attempts that end in Success, Error or
\* Conflict, triggers that are dropped or queued, and the panel's own upload
\* with notifySyncSuccess.
NextMeta ==
  \/ ManualSync
  \/ \E a \in Acts : GetMetaOK(a)
  \/ \E a \in Acts : GetMetaFail(a)
  \/ \E a \in Acts : Decide(a)
  \/ \E a \in Acts : ConflictEnd(a)
  \/ \E a \in Acts : DownloadOK(a)
  \/ \E a \in Acts : ImportOK(a)
  \/ \E a \in Acts : MetaDone(a)
  \/ \E a \in Acts : NoopMetaDone(a)
  \/ \E a \in Acts : ExportDone(a)
  \/ \E a \in Acts : UploadOK(a)
  \/ OnlineEvent
  \/ OfflineEvent
  \/ LocalSave
  \/ PanelBackup
  \/ NotifySyncSuccess

SpecMeta == Init /\ [][NextMeta]_vars

\* a step in which autoSync returned or threw without starting an attempt
\* and no attempt ended
TriggerWithoutAttempt ==
  /\ lastCall'.kind # NULL /\ lastEnd'.outcome = NULL
  /\ lastCall'.outcome \in {"disabled", "wifi", "dropped", "offline", "noauth"}

NextCodec ==
  \/ Tick
  \/ LocalSave
  \/ LocalSaveImage
  \/ LocalDelete
  \/ DeleteImage
  \/ PanelBackup
  \/ NotifySyncSuccess
  \/ RestoreReplace

SpecCodec == Init /\ [][NextCodec]_vars

\* C24: in an exported snapshot every soft-deleted record carries only its
\* key, deletedAt and updatedAt, and no payload field such as the title; no
\* image file or reference of it is in the archive.  (The statement as the
\* specification gives it.)
C24_TombstoneCarriesNoPayload ==
  \A n \in 1..Len(files) : \A k \in Keys :
     files[n].content.entries[k].deletedAt # 0 =>
        /\ files[n].content.entries[k].title = NULL
        /\ \A i \in ImageIds : files[n].content.images[i].entryDate # k

\* the media items of the live entries of a store
LiveMedia(es, imgs) ==
  [i \in ImageIds |->
     IF imgs[i] # NoImage /\ imgs[i].deletedAt = 0 /\ es[imgs[i].entryDate] # NoEntry
        /\ es[imgs[i].entryDate].deletedAt = 0
     THEN imgs[i] ELSE NoImage]

\* archive n of the folder is what exportUserDataAsZip makes of the store
ExportOfStore(n) ==
  files[n].content = exportUserDataAsZip(entries, images, files[n].content.exportDate)

\* a step that imported, in replace mode, the export of the store as it is,
\* every put having succeeded
RoundTrip ==
  /\ lastEnd'.outcome = "restored"
  /\ ExportOfStore(lastEnd'.nDown)
  /\ lastEnd'.nImp = Cardinality(preparedImages(files[lastEnd'.nDown].content))

Passwords == {"pw1", "pw2"}
Archives == {"zipA", "zipB"}
Salts == 1..MaxSalt
Responses == {"ok", "noauth", "httpError"}

\* Bytes are a record: their length, the salt and iv they start with, the
\* key that opens them (NULL when they are not a ciphertext) and the
\* archive they hold.
Zip(a) == [len |-> ArchiveLen, salt |-> 0, key |-> NULL, data |-> a]

\* encryptData: salt + iv + AES-GCM ciphertext under the PBKDF2 key.
encryptData(bytes, password, salt) ==
  [len |-> SALT_LENGTH + IV_LENGTH + bytes.len, salt |-> salt,
   key |-> password, data |-> bytes.data]

\* decryptData throws for fewer than salt + iv bytes, for a key that does
\* not open the bytes and for bytes that are no ciphertext.
DecryptFails(bytes, password) ==
  bytes.len < SALT_LENGTH + IV_LENGTH \/ bytes.key # password

\* decryptData, when it does not throw.
decryptData(bytes, password) ==
  [len |-> bytes.len - SALT_LENGTH - IV_LENGTH, salt |-> 0, key |-> NULL, data |-> bytes.data]

\* A fileId handed to downloadBackup is the id of a listing entry or a path.
ListingId(f) == [kind |-> "id", id |-> f.id, ext |-> NULL]

\* fileId.endsWith('.enc')
EndsWithEnc(fileId) == fileId.kind = "path" /\ fileId.ext = "enc"

\* listBackupFiles: the folder's files, newest createdTime first, each
\* identified by entry.id.
listBackupFiles(fs) == [n \in 1..Len(fs) |-> [id |-> ListingId(fs[n]), name |-> fs[n].ext]]

\* downloadBackup after the response arrived with the file's bytes.
downloadBackup(fileId, bytes, password) ==
  IF EndsWithEnc(fileId)
  THEN IF password = NULL
       THEN [outcome |-> "PASSWORD_REQUIRED", blob |-> NoBytes]
       ELSE IF DecryptFails(bytes, password)
            THEN [outcome |-> "decryptFailed", blob |-> NoBytes]
            ELSE [outcome |-> "ok", blob |-> decryptData(bytes, password)]
  ELSE [outcome |-> "ok", blob |-> bytes]

\* Everything outside the two providers' own state.
coreVars == <<now, status, lastSyncTime, remoteFileId, lastError, conflictDetails,
             isOnline, pendingQueue, storedQueue, debounceTimer,
             autoSyncEnabled, wifiOnly, syncOnSave, connection,
             accessToken, signInWaiter, files, entries, images, meta,
             act, onl, panel, listeners, received, notice, lastCall, lastEnd>>

\* Everything outside the Dropbox provider.
appVars == <<coreVars, retentionVars, debounceVars, replicaVars, userVars>>

SetEncryptionPassword(p) ==
  /\ encryptionPassword' = p
  /\ UNCHANGED <<dropbox, dbxLast, appVars>>

\* uploadBackup: encrypts when a password is set, adds the file under a
\* new name, then prunes.
DropboxUpload(a, salt, resp) ==
  /\ Len(dropbox) < MaxDropbox
  /\ LET enc == encryptionPassword # NULL
         sent == IF enc THEN encryptData(Zip(a), encryptionPassword, salt) ELSE Zip(a)
         f == [id |-> Len(dropbox) + 1, ext |-> IF enc THEN "enc" ELSE "zip", bytes |-> sent]
     IN IF resp = "ok"
        THEN /\ dropbox' = deleteOldBackups(<<f>> \o dropbox)
             /\ dbxLast' = [op |-> "upload", outcome |-> "ok", fileId |-> f.id, name |-> f.ext,
                            sent |-> a, blob |-> NoBytes, password |-> encryptionPassword]
        ELSE /\ dropbox' = dropbox
             /\ dbxLast' = [op |-> "upload", outcome |-> resp, fileId |-> 0, name |-> NULL,
                            sent |-> a, blob |-> NoBytes, password |-> encryptionPassword]
  /\ UNCHANGED <<encryptionPassword, appVars>>

\* A file with the backup prefix and the .enc extension that holds damaged
\* or truncated bytes.
DamagedFile(short) ==
  /\ Len(dropbox) < MaxDropbox
  /\ dropbox' = <<[id |-> Len(dropbox) + 1, ext |-> "enc",
                   bytes |-> [len |-> IF short THEN IV_LENGTH
                                      ELSE SALT_LENGTH + IV_LENGTH + ArchiveLen,
                              salt |-> 1, key |-> "damaged", data |-> NULL]]>> \o dropbox
  /\ UNCHANGED <<encryptionPassword, dbxLast, appVars>>

\* getSyncData: the newest listed file, downloaded by the id of its
\* listing entry.
DropboxGetSyncData(resp) ==
  /\ dropbox # <<>>
  /\ LET syncFile == listBackupFiles(dropbox)[1]
         r == downloadBackup(syncFile.id, dropbox[1].bytes, encryptionPassword)
     IN dbxLast' = IF resp = "ok"
                   THEN [op |-> "download", outcome |-> r.outcome, fileId |-> dropbox[1].id,
                         name |-> syncFile.name, sent |-> NULL, blob |-> r.blob,
                         password |-> encryptionPassword]
                   ELSE [op |-> "download", outcome |-> resp, fileId |-> dropbox[1].id,
                         name |-> syncFile.name, sent |-> NULL, blob |-> NoBytes,
                         password |-> encryptionPassword]
  /\ UNCHANGED <<dropbox, encryptionPassword, appVars>>

NextCrypto ==
  \/ \E p \in Passwords \cup {NULL} : SetEncryptionPassword(p)
  \/ \E a \in Archives, s \in Salts, r \in Responses : DropboxUpload(a, s, r)
  \/ \E short \in BOOLEAN : DamagedFile(short)
  \/ \E r \in Responses : DropboxGetSyncData(r)

SpecCrypto == Init /\ [][NextCrypto]_vars

\* The file the latest download read, and that its bytes arrived.
Downloaded == dropbox[Len(dropbox) + 1 - dbxLast.fileId]

DownloadedBytes ==
  /\ dbxLast.op = "download"
  /\ dbxLast.outcome \notin {"noauth", "httpError"}

\* C26: a snapshot uploaded with a passphrase and downloaded by its listing
\* id with the same passphrase comes back as exactly the original bytes.
C26_EncryptionTransparent ==
  (/\ DownloadedBytes
   /\ Downloaded.bytes.key \in Passwords
   /\ Downloaded.bytes.key = dbxLast.password)
     => /\ dbxLast.outcome = "ok"
        /\ dbxLast.blob = Zip(Downloaded.bytes.data)

\* C27: downloading a snapshot stored encrypted fails with PASSWORD_REQUIRED
\* when no passphrase is set and with a decryption failure when the
\* passphrase is wrong or the bytes are damaged or shorter than salt + iv;
\* the ciphertext is never returned as the archive.
C27_EncryptedDownloadFailsClosed ==
  (DownloadedBytes /\ Downloaded.ext = "enc")
     => /\ dbxLast.password = NULL => dbxLast.outcome = "PASSWORD_REQUIRED"
        /\ (dbxLast.password # NULL /\ DecryptFails(Downloaded.bytes, dbxLast.password))
              => dbxLast.outcome = "decryptFailed"
        /\ ~(dbxLast.outcome = "ok" /\ dbxLast.blob = Downloaded.bytes)

\* ---------------------------------------------------------------------
\* syncToGoogleDrive and deleteOldBackups step by step, beside the uploads
\* and the pruning of other devices (src/services/googleDrive.js).
\* ---------------------------------------------------------------------

PostResponses == {"ok", "error", "lost"}

Ids(fs) == {fs[n].id : n \in 1..Len(fs)}

\* deleteOldBackups: files.slice(MAX_BACKUPS_TO_KEEP) of the listing, which
\* is ordered by createdTime, newest first.
filesToDeleteNewest(fs) ==
  IF Len(fs) > MAX_BACKUPS_TO_KEEP
  THEN [n \in 1..(Len(fs) - MAX_BACKUPS_TO_KEEP) |-> fs[n].id]
  ELSE <<>>

filesToDelete(fs) ==
  IF Len(fs) > MAX_BACKUPS_TO_KEEP
  THEN [n \in 1..(Len(fs) - MAX_BACKUPS_TO_KEEP) |-> fs[n + MAX_BACKUPS_TO_KEEP].id]
  ELSE <<>>

\* the folder without the file of that id
Without(fs, id) == SelectSeq(fs, LAMBDA f : f.id # id)

\* the promise of syncToGoogleDrive resolves with status 'created'
Resolved(removed) ==
  /\ gd' = NoUpload
  /\ gdLast' = [op |-> "prune", outcome |-> "created", file |-> gd.file,
                removed |-> removed, retry |-> gd.failed]

\* The multipart POST.  A 2xx answer: the service has created a file with a
\* new id, deleteOldBackups is called.  Another answer rejects.  A network
\* error rejects too, and the service may have created the file all the same.
GdPost(resp) ==
  /\ gd.pc = "idle"
  /\ created.self < MaxPosts
  /\ LET f == [id |-> created.self + created.other + 1, dev |-> DEVICE]
     IN CASE resp = "ok" ->
               /\ drive' = <<f>> \o drive
               /\ created' = [created EXCEPT !.self = @ + 1]
               /\ gd' = [gd EXCEPT !.pc = "list", !.file = f.id]
               /\ gdLast' = [op |-> "post", outcome |-> "pending", file |-> f.id,
                             removed |-> 0, retry |-> gd.failed]
          [] resp = "lost" ->
               /\ drive' = <<f>> \o drive
               /\ created' = [created EXCEPT !.self = @ + 1]
               /\ gd' = [NoUpload EXCEPT !.failed = TRUE]
               /\ gdLast' = [op |-> "post", outcome |-> "rejected", file |-> 0,
                             removed |-> 0, retry |-> gd.failed]
          [] OTHER ->
               /\ UNCHANGED <<drive, created>>
               /\ gd' = [NoUpload EXCEPT !.failed = TRUE]
               /\ gdLast' = [op |-> "post", outcome |-> "rejected", file |-> 0,
                             removed |-> 0, retry |-> gd.failed]
  /\ UNCHANGED <<coreVars, dropboxVars, debounceVars, replicaVars, userVars>>

\* deleteOldBackups: listBackupFiles answers or throws
GdList(ok) ==
  /\ gd.pc = "list"
  /\ IF ok /\ filesToDelete(drive) # <<>>
     THEN /\ gd' = [gd EXCEPT !.pc = "delete", !.toDelete = filesToDelete(drive)]
          /\ gdLast' = [op |-> "list", outcome |-> "pending", file |-> gd.file,
                        removed |-> 0, retry |-> gd.failed]
     ELSE Resolved(0)
  /\ UNCHANGED <<drive, created, coreVars, dropboxVars, debounceVars, replicaVars, userVars>>

\* deleteOldBackups: one deleteBackupFile of the loop; it throws when the
\* request fails or the file is gone
GdDelete(ok) ==
  /\ gd.pc = "delete"
  /\ LET id == Head(gd.toDelete)
     IN IF ok /\ id \in Ids(drive)
        THEN /\ drive' = Without(drive, id)
             /\ IF Tail(gd.toDelete) = <<>>
                THEN Resolved(gd.removed + 1)
                ELSE /\ gd' = [gd EXCEPT !.toDelete = Tail(@), !.removed = @ + 1]
                     /\ gdLast' = [op |-> "delete", outcome |-> "pending", file |-> gd.file,
                                   removed |-> gd.removed + 1, retry |-> gd.failed]
        ELSE /\ drive' = drive
             /\ Resolved(gd.removed)
  /\ UNCHANGED <<created, coreVars, dropboxVars, debounceVars, replicaVars, userVars>>

\* another device's POST
OtherUpload ==
  /\ created.other < MaxOther
  /\ drive' = <<[id |-> created.self + created.other + 1, dev |-> "other"]>> \o drive
  /\ created' = [created EXCEPT !.other = @ + 1]
  /\ UNCHANGED <<gd, gdLast, coreVars, dropboxVars, debounceVars, replicaVars, userVars>>

\* one deleteBackupFile of another device's deleteOldBackups
OtherPrune ==
  /\ filesToDelete(drive) # <<>>
  /\ drive' = Without(drive, drive[Len(drive)].id)
  /\ UNCHANGED <<gd, created, gdLast, coreVars, dropboxVars, debounceVars, replicaVars, userVars>>

NextRetention ==
  \/ \E r \in PostResponses : GdPost(r)
  \/ \E ok \in BOOLEAN : GdList(ok)
  \/ \E ok \in BOOLEAN : GdDelete(ok)
  \/ OtherUpload
  \/ OtherPrune

SpecRetention == Init /\ [][NextRetention]_vars

\* where the file of that id stands in the folder, newest first
Position(fs, id) == CHOOSE n \in 1..Len(fs) : fs[n].id = id

\* what a step of this device's upload removes
RemovedByUpload == IF gd' # gd THEN Ids(drive) \ Ids(drive') ELSE {}

\* what a step never does: change a stored file, add more than the one file
\* of a successful POST, remove anything but one file that stands behind the
\* MAX_BACKUPS_TO_KEEP newest, or end an upload whose POST succeeded
\* otherwise than with 'created'
UploadContract ==
  /\ \A i \in 1..Len(drive), j \in 1..Len(drive') :
        drive[i].id = drive'[j].id => drive[i] = drive'[j]
  /\ (gd.pc = "idle" /\ gd'.pc = "list") =>
        /\ Ids(drive) \subseteq Ids(drive')
        /\ Ids(drive') \ Ids(drive) = {gd'.file}
        /\ Len(drive') = Len(drive) + 1
  /\ (gd' # gd /\ gd.pc # "delete") => Ids(drive) \subseteq Ids(drive')
  /\ \A id \in Ids(drive) \ Ids(drive') :
        /\ Ids(drive) \ Ids(drive') = {id}
        /\ Position(drive, id) > MAX_BACKUPS_TO_KEEP
  /\ (gd.pc \in {"list", "delete"} /\ gd'.pc = "idle") =>
        /\ gdLast'.outcome = "created"
        /\ ~gd'.failed

\* C28 as stated: besides the above, pruning never removes the file that the
\* upload has just created.
C28_PruningSparesNewUpload ==
  [][UploadContract /\ gd.file \notin RemovedByUpload]_vars

\* C28: an upload changes no stored file, a successful POST (a retried one
\* too) adds exactly one file, files are removed only by pruning and only
\* from behind the 20 newest, a failed pruning leaves the upload resolved as
\* created, and the file just created is removed only when
\* MAX_BACKUPS_TO_KEEP newer files of other devices stand before it.
C28_UploadOnlyAddsAndPrunes ==
  [][/\ UploadContract
     /\ gd.file \in RemovedByUpload =>
          Cardinality({n \in 1..Len(drive) :
                          /\ n < Position(drive, gd.file)
                          /\ drive[n].dev = "other"}) >= MAX_BACKUPS_TO_KEEP]_vars

\* A retried upload has resolved as created after its pruning removed a file,
\* and the file it created is in the folder.
C28_Witness ==
  /\ gdLast.op = "prune" /\ gdLast.outcome = "created"
  /\ gdLast.retry /\ gdLast.removed > 0
  /\ gdLast.file \in Ids(drive)
  /\ Len(drive) = MAX_BACKUPS_TO_KEEP

\* The updatedAt of every record the user has, entries and images, live or
\* soft-deleted.
AllUpdatedAt ==
  {entries[k].updatedAt : k \in {x \in Keys : entries[x] # NoEntry}}
    \cup {images[i].updatedAt : i \in {x \in ImageIds : images[x] # NoImage}}

\* C29: getLatestLocalTimestamp is the greatest updatedAt over all of the
\* user's records, entries and images, tombstones included, and null when
\* there is no record; a change to an image alone raises it.
C29_LatestCoversEveryRecord ==
  /\ AllUpdatedAt = {} => getLatestLocalTimestamp(entries) = 0
  /\ \A t \in AllUpdatedAt : getLatestLocalTimestamp(entries) >= t
  /\ AllUpdatedAt # {} => getLatestLocalTimestamp(entries) \in AllUpdatedAt

\* ---------------------------------------------------------------------
\* debouncedSyncAfterSave with its timeouts and the clock
\* (part_020:599-623, called by handleSave through triggerDebouncedSync).
\* ---------------------------------------------------------------------

TimerIds == 1..MaxSaves

\* clearTimeout(this.debounceTimer)
clearTimeoutNothing(ts, id) == ts

clearTimeout(ts, id) == {t \in ts : t.id # id}

\* the clock of the timers advances
ClockTick ==
  /\ now < MaxClock
  /\ now' = now + 1
  /\ NoEvent
  /\ UNCHANGED <<engineVars, isOnline, connection, accessToken, settingsVars, dataVars,
                 panel, debounceTimer, dropboxVars, retentionVars, debounceVars, replicaVars, userVars>>

\* the settings page switches 'sync on save'
ToggleSyncOnSave ==
  /\ syncOnSave' = ~syncOnSave
  /\ NoEvent
  /\ UNCHANGED <<now, engineVars, isOnline, connection, accessToken, autoSyncEnabled, wifiOnly,
                 dataVars, panel, debounceTimer, dropboxVars, retentionVars, debounceVars, replicaVars, userVars>>

\* handleSave: saveEntryWithImages, then triggerDebouncedSync, that is
\* debouncedSyncAfterSave: nothing when syncOnSave is off, else the timeout
\* the field names is cleared and a new one is set, due in DEBOUNCE_DELAY
HandleSave ==
  /\ Len(saveLog) < MaxSaves
  /\ now + DEBOUNCE_DELAY <= MaxClock
  /\ \E k \in Keys, t \in Titles :
       /\ entries' = [entries EXCEPT ![k] = [title |-> t, updatedAt |-> now, deletedAt |-> 0]]
       /\ images' = [i \in ImageIds |->
                       IF images[i].entryDate = k /\ images[i].deletedAt # 0
                       THEN NoImage ELSE images[i]]
  /\ saveLog' = Append(saveLog, [at |-> now, armed |-> syncOnSave])
  /\ IF syncOnSave
     THEN /\ timeouts' = clearTimeout(timeouts, debounceTimerId)
                           \cup {[id |-> Len(saveLog) + 1, due |-> now + DEBOUNCE_DELAY]}
          /\ debounceTimerId' = Len(saveLog) + 1
     ELSE UNCHANGED <<timeouts, debounceTimerId>>
  /\ debounceTimer' = Rearm
  /\ NoEvent
  /\ UNCHANGED <<engineVars, now, isOnline, connection, accessToken, settingsVars, files,
                 meta, lastSyncTime, remoteFileId, panel, fireLog, dropboxVars, retentionVars, replicaVars, userVars>>

\* a timeout that is due runs its callback: autoSync({silent: true}); the
\* field keeps the id
DebounceTimeout ==
  /\ \E t \in timeouts :
       /\ t.due <= now
       /\ timeouts' = timeouts \ {t}
       /\ fireLog' = Append(fireLog, [at |-> now, id |-> t.id, saves |-> Len(saveLog)])
  /\ debounceTimer' = (timeouts' # {})
  /\ Commit(autoSync(Engine, [silent |-> TRUE, isManual |-> FALSE, resolution |-> NULL],
                     "debounce", 0).e)
  /\ UNCHANGED <<now, isOnline, connection, accessToken, settingsVars, dataVars, panel,
                 debounceTimerId, saveLog, dropboxVars, retentionVars, replicaVars, userVars>>

NextDebounce ==
  \/ ClockTick
  \/ ToggleSyncOnSave
  \/ HandleSave
  \/ DebounceTimeout

SpecDebounce ==
  Init /\ [][NextDebounce]_vars /\ WF_vars(ClockTick) /\ WF_vars(DebounceTimeout)

\* the save that set the timeout of that id
ArmedBy(id) == saveLog[id]

\* C30 as stated: every save leaves exactly one timeout pending, due one
\* interval after it, and a timeout runs the sync exactly when it is due.
C30_EverySaveRearms ==
  [][/\ saveLog' # saveLog =>
          timeouts' = {[id |-> Len(saveLog'), due |-> now + DEBOUNCE_DELAY]}
     /\ fireLog' # fireLog =>
          fireLog'[Len(fireLog')].at = saveLog[Len(saveLog)].at + DEBOUNCE_DELAY]_vars

\* At most one timeout is pending; a timeout that runs the sync was set by a
\* save made with syncOnSave on, runs no earlier than one interval after
\* that save, and no save made with syncOnSave on lies between the two; no
\* timeout runs twice.
DebounceSafety ==
  /\ Cardinality(timeouts) <= 1
  /\ \A i \in 1..Len(fireLog) :
        /\ ArmedBy(fireLog[i].id).armed
        /\ fireLog[i].at >= ArmedBy(fireLog[i].id).at + DEBOUNCE_DELAY
        /\ \A j \in 1..fireLog[i].saves : saveLog[j].armed => j <= fireLog[i].id
        /\ \A j \in 1..Len(fireLog) : fireLog[j].id = fireLog[i].id => j = i

\* C30: the above, and a pending timeout does run the sync unless a later
\* save replaces it: a burst of saves made with syncOnSave on ends in
\* exactly one call of autoSync.
C30_BurstCollapses ==
  /\ []DebounceSafety
  /\ \A id \in TimerIds :
        []((\E t \in timeouts : t.id = id)
              => <>(\/ \E i \in 1..Len(fireLog) : fireLog[i].id = id
                    \/ debounceTimerId > id))

\* Three saves less than one interval apart, all with syncOnSave on, have
\* been followed by the one call of autoSync, made by the last timeout.
C30_Witness ==
  /\ Len(saveLog) = MaxSaves
  /\ \A j \in 1..Len(saveLog) : saveLog[j].armed
  /\ \A j \in 1..(Len(saveLog) - 1) : saveLog[j + 1].at - saveLog[j].at < DEBOUNCE_DELAY
  /\ saveLog[Len(saveLog)].at > saveLog[1].at
  /\ Len(fireLog) = 1 /\ fireLog[1].id = Len(saveLog)
  /\ lastCall.kind = "debounce"

\* ---------------------------------------------------------------------
\* Edits made while an attempt is in flight.
\* ---------------------------------------------------------------------

\* the import of attempt a commits in this step
ImportCommits(a) == act[a].pc = "import" /\ act'[a] # act[a] /\ entries' # entries

\* C31: the import of a pull that was decided without a resolution replaces
\* no local entry whose updatedAt is later than the last sync.
C31_PullKeepsUnsyncedEdit ==
  [][\A a \in Acts :
       (ImportCommits(a) /\ act[a].resolution = NULL) =>
          \A k \in Keys :
             (entries[k] # NoEntry /\ entries[k].updatedAt > lastSyncTime)
                => entries'[k] = entries[k]]_vars

\* Pushes and no-ops of this device beside its saves, on the finer clock.
NextFlight ==
  \/ TimerFire
  \/ \E a \in Acts : GetMetaOK(a)
  \/ \E a \in Acts : Decide(a)
  \/ \E a \in Acts : ExportDone(a)
  \/ \E a \in Acts : UploadOK(a)
  \/ \E a \in Acts : MetaDone(a)
  \/ \E a \in Acts : NoopMetaDone(a)
  \/ LocalSave
  \/ ClockTick

SpecFlight == Init /\ [][NextFlight]_vars

\* the entry as this device holds it is in a snapshot of the remote folder
InSomeSnapshot(k) == \E n \in 1..Len(files) : files[n].content.entries[k] = entries[k]

\* C32: when an attempt has ended in Success, no local entry has an
\* updatedAt before the sync point while no remote snapshot holds it: an
\* entry changed while the attempt was in flight is still later than the
\* sync point the attempt wrote.
C32_NoChangeBehindSyncPoint ==
  lastEnd.outcome = SUCCESS =>
     \A k \in Keys :
        (entries[k] # NoEntry /\ entries[k].updatedAt < lastSyncTime) => InSomeSnapshot(k)

\* C33: the sync point a pull writes names the snapshot whose bytes the
\* attempt downloaded and imported: its id and its modifiedTime.
C33_PullRecordsDownloadedSnapshot ==
  [][\A a \in Acts :
       (act[a].pc = "pullMeta" /\ meta' # meta) =>
          \E n \in 1..Len(files) :
             /\ files[n].content = act[a].blob
             /\ files[n].id = meta'.remoteFileId
             /\ files[n].modifiedTime = meta'.lastSyncAt]_vars

\* no attempt is in flight
NoAttempt == \A a \in Acts : act[a].pc = "free"

\* C34: with no attempt in flight, a newest remote snapshot that is not the
\* one SyncMetadata records does not have a modifiedTime before the last
\* sync: the sync point never moves past a snapshot this device has not seen.
C34_UnseenSnapshotStaysNewer ==
  (NoAttempt /\ files # <<>> /\ Head(files).id # remoteFileId)
     => Head(files).modifiedTime >= lastSyncTime

\* ---------------------------------------------------------------------
\* Two installations of one account and the folder they share.  A step of
\* a replica is a whole handler run without another one in between: a
\* save, a delete, or an attempt of autoSync from its metadata read to its
\* status.
\* ---------------------------------------------------------------------

\* saveEntryWithImages on replica d: the entry is put with updatedAt = now,
\* its images that the editor does not list are deleted, and a new image
\* file gets the next id of the images table
RepSave(d, k, withImage) ==
  /\ LET r == replica[d]
         kept == [i \in ImageIds |->
                    IF r.images[i].entryDate = k /\ r.images[i].deletedAt # 0
                    THEN NoImage ELSE r.images[i]]
         entry == [title |-> d, updatedAt |-> now, deletedAt |-> 0]
     IN IF withImage
        THEN \E n \in ImageIds :
               /\ r.images[n] = NoImage
               /\ \A i \in ImageIds : r.images[i] # NoImage => i < n
               /\ replica' = [replica EXCEPT
                                ![d].entries[k] = entry,
                                ![d].images = [kept EXCEPT ![n] =
                                                 [entryDate |-> k, dev |-> d,
                                                  deletedAt |-> 0, updatedAt |-> 0]]]
        ELSE replica' = [replica EXCEPT ![d].entries[k] = entry, ![d].images = kept]
  /\ repLast.edits < MaxEdits
  /\ repLast' = [NoRepStep EXCEPT !.op = "save", !.dev = d, !.edits = repLast.edits + 1]
  /\ UNCHANGED <<cloud, coreVars, dropboxVars, retentionVars, debounceVars, userVars>>

\* deleteEntry on replica d
RepDelete(d, k) ==
  /\ replica[d].entries[k] # NoEntry /\ replica[d].entries[k].deletedAt = 0
  /\ replica' = [replica EXCEPT
                   ![d].entries[k].deletedAt = now, ![d].entries[k].updatedAt = now,
                   ![d].images = [i \in ImageIds |->
                                    IF replica[d].images[i].entryDate = k
                                    THEN [replica[d].images[i] EXCEPT !.deletedAt = now,
                                                                      !.updatedAt = now]
                                    ELSE replica[d].images[i]]]
  /\ repLast.edits < MaxEdits
  /\ repLast' = [NoRepStep EXCEPT !.op = "delete", !.dev = d, !.edits = repLast.edits + 1]
  /\ UNCHANGED <<cloud, coreVars, dropboxVars, retentionVars, debounceVars, userVars>>

\* autoSync on replica d, with the resolution of a conflict or without:
\* the newest file's metadata, the local timestamp, the direction, then
\* performPull, performPush, the conflict or the no-op, and the status
RepAttempt(d, resolution) ==
  /\ resolution # NULL => replica[d].status = CONFLICT
  /\ LET r == replica[d]
         localModifiedTime == getLatestLocalTimestamp(r.entries)
         branch == Direction(resolution, cloud.modifiedTime > r.lastSyncAt,
                             localModifiedTime > r.lastSyncAt)
         file == [id |-> cloud.id + 1, modifiedTime |-> now,
                  contentHash |-> ContentHash(exportUserDataAsZip(r.entries, r.images, now)),
                  content |-> exportUserDataAsZip(r.entries, r.images, now), dev |-> d]
     IN /\ repLast' = [op |-> "sync", dev |-> d, branch |-> branch, resolution |-> resolution,
                       edits |-> repLast.edits]
        /\ CASE branch = "conflict" ->
                  /\ replica' = [replica EXCEPT ![d].status = CONFLICT]
                  /\ cloud' = cloud
             [] branch = "pull" /\ cloud = NoFile ->
                  /\ replica' = [replica EXCEPT ![d].status = SUCCESS]
                  /\ cloud' = cloud
             [] branch = "pull" /\ cloud # NoFile ->
                  /\ \E failed \in SUBSET preparedImages(cloud.content) :
                       replica' = [replica EXCEPT
                          ![d].entries = importUserDataMerge(r.entries, cloud.content),
                          ![d].images = importImages(r.images, cloud.content, failed),
                          ![d].lastSyncAt = performPullMeta(cloud).lastSyncAt,
                          ![d].remoteFileId = performPullMeta(cloud).remoteFileId,
                          ![d].status = SUCCESS]
                  /\ cloud' = cloud
             [] branch = "push" ->
                  /\ cloud.id < MaxUploads
                  /\ cloud' = file
                  /\ replica' = [replica EXCEPT
                          ![d].lastSyncAt = performPushMeta(file).lastSyncAt,
                          ![d].remoteFileId = performPushMeta(file).remoteFileId,
                          ![d].status = SUCCESS]
             [] OTHER ->
                  /\ replica' = [replica EXCEPT ![d].lastSyncAt = noopMeta(now).lastSyncAt,
                                                ![d].status = SUCCESS]
                  /\ cloud' = cloud
  /\ UNCHANGED <<coreVars, dropboxVars, retentionVars, debounceVars, userVars>>

\* the clock of the replicas advances
RepTick ==
  /\ now < MaxRepTime
  /\ now' = now + 1
  /\ NoEvent
  /\ UNCHANGED <<engineVars, isOnline, connection, accessToken, settingsVars, dataVars,
                 panel, debounceTimer, dropboxVars, retentionVars, debounceVars, replicaVars, userVars>>

NextReplicas ==
  \/ \E d \in Devices, k \in Dates, withImage \in BOOLEAN : RepSave(d, k, withImage)
  \/ \E d \in Devices, k \in Dates : RepDelete(d, k)
  \/ \E d \in Devices, resolution \in {NULL, "push", "pull"} : RepAttempt(d, resolution)
  \/ RepTick

SpecReplicas == Init /\ [][NextReplicas]_vars

\* the step is a pull of the replica that imported the newest snapshot
Pulled == repLast'.op = "sync" /\ repLast'.branch = "pull" /\ cloud # NoFile

\* C35: a merge import alters no local image of an entry that the snapshot
\* does not hold or holds unchanged.
C35_MergeKeepsOtherEntriesMedia ==
  [][Pulled =>
       LET d == repLast'.dev
       IN \A i \in ImageIds :
            LET img == replica[d].images[i]
            IN (/\ img # NoImage
                /\ \/ cloud.content.entries[img.entryDate] = NoEntry
                   \/ cloud.content.entries[img.entryDate] = replica[d].entries[img.entryDate])
                  => replica'[d].images[i] = img]_vars

\* the record is a tombstone: it exists and no read of live entries
\* (getEntryWithImages, getEntries: !e.deletedAt) returns it
Tombstone(e) == e # NoEntry /\ e.deletedAt # 0

\* the deletion of k has reached both replicas and the newest snapshot
Propagated(k) ==
  /\ cloud # NoFile /\ Tombstone(cloud.content.entries[k])
  /\ \A d \in Devices : Tombstone(replica[d].entries[k])

\* C36: a push carries the tombstones of the pushing replica, a pull of a
\* replica whose only news is the remote snapshot makes every tombstone of
\* the snapshot a tombstone of the replica, and once the deletion is on both
\* replicas and in the newest snapshot it stays through every sync.
C36_DeletionPropagates ==
  [][/\ (repLast'.op = "sync" /\ repLast'.branch = "push") =>
          \A k \in Dates :
             Tombstone(replica[repLast'.dev].entries[k])
                => Tombstone(cloud'.content.entries[k])
     /\ (Pulled /\ repLast'.resolution = NULL) =>
          \A k \in Dates :
             Tombstone(cloud.content.entries[k])
                => Tombstone(replica'[repLast'.dev].entries[k])
     /\ repLast'.op = "sync" =>
          \A k \in Dates : Propagated(k) => Propagated(k)']_vars

\* the deletion of a replica has reached the other one by a push and a pull,
\* and a later snapshot of that other replica has been pulled back
C36_Witness ==
  /\ repLast.op = "sync" /\ repLast.branch = "pull" /\ repLast.resolution = NULL
  /\ cloud.id = 3 /\ cloud.dev # repLast.dev
  /\ \E k \in Dates : Propagated(k)

\* the next attempt of replica d without a resolution would find neither
\* side newer
NextIsNoop(d) ==
  Direction(NULL, cloud.modifiedTime > replica[d].lastSyncAt,
            getLatestLocalTimestamp(replica[d].entries) > replica[d].lastSyncAt) = "noop"

\* the latest step is the resolution of a conflict on replica d that ended
\* in SUCCESS
Resolved37(d) ==
  /\ repLast.op = "sync" /\ repLast.dev = d /\ repLast.resolution # NULL
  /\ replica[d].status = SUCCESS /\ cloud # NoFile

\* C37: when a conflict has been resolved with SUCCESS and the next attempt
\* of the replica is a no-op, every record of the replica that is older
\* than its sync point is in the newest snapshot as the replica holds it.
C37_ResolutionConverges ==
  \A d \in Devices :
     (Resolved37(d) /\ NextIsNoop(d)) =>
        \A k \in Dates :
           (replica[d].entries[k] # NoEntry
              /\ replica[d].entries[k].updatedAt < replica[d].lastSyncAt)
                => cloud.content.entries[k] = replica[d].entries[k]

\* ---------------------------------------------------------------------
\* The end of an attempt.  Each request of an attempt is answered in the
\* end; the answer to the upload is handled in xhr.onload.
\* ---------------------------------------------------------------------

\* xhr.onload with an answer whose body is not JSON (a non-2xx page of a
\* proxy, an empty body): JSON.parse throws inside the event handler, after
\* which neither resolve nor reject is ever called, so the await in pushSync
\* never returns
UploadUnparsed(a) ==
  /\ act[a].pc = "upload"
  /\ UNCHANGED dataVars
  /\ Commit([Engine EXCEPT !.act[a].pc = "hung"])
  /\ Unchanged1

\* a step of attempt a that an answer, a timer or a database call brings
AttemptStep(a) ==
  \/ GetMetaOK(a) \/ GetMetaFail(a) \/ Decide(a) \/ ConflictEnd(a)
  \/ DownloadOK(a) \/ DownloadFail(a) \/ BackoffElapsed(a)
  \/ ImportOK(a) \/ ImportFail(a) \/ MetaDone(a) \/ NoopMetaDone(a)
  \/ ExportDone(a) \/ UploadOK(a) \/ UploadFail(a) \/ UploadUnparsed(a)

NextLive ==
  \/ TimerFire
  \/ \E a \in Acts : GetMetaOK(a)
  \/ \E a \in Acts : GetMetaFail(a)
  \/ \E a \in Acts : Decide(a)
  \/ \E a \in Acts : ConflictEnd(a)
  \/ \E a \in Acts : DownloadOK(a)
  \/ \E a \in Acts : DownloadFail(a)
  \/ \E a \in Acts : BackoffElapsed(a)
  \/ \E a \in Acts : ImportOK(a)
  \/ \E a \in Acts : ImportFail(a)
  \/ \E a \in Acts : MetaDone(a)
  \/ \E a \in Acts : NoopMetaDone(a)
  \/ \E a \in Acts : ExportDone(a)
  \/ \E a \in Acts : UploadOK(a)
  \/ \E a \in Acts : UploadFail(a)
  \/ \E a \in Acts : UploadUnparsed(a)
  \/ Tick
  \/ LocalSave
  \/ OtherDeviceUpload

\* every request is answered and every timer fires: a step of an attempt
\* that stays possible is taken
SpecLive == Init /\ [][NextLive]_vars /\ WF_vars(\E a \in Acts : AttemptStep(a))

\* C38: an attempt that has set the status to SYNCING leaves it for SUCCESS,
\* ERROR or CONFLICT.
C38_SyncingEnds == (status = SYNCING) ~> (status \in {SUCCESS, ERROR, CONFLICT})

\* ---------------------------------------------------------------------
\* The engine after setUserId(null): handleLogout and the guest mode clear
\* the engine's userId and leave its timer, its listeners and the Google
\* session of the page as they are.
\* ---------------------------------------------------------------------
InitGuest == InitEngine /\ wifiOnly = FALSE /\ syncOnSave = FALSE /\ userId = NULL

NextGuest ==
  \/ TimerFire
  \/ ManualSync
  \/ \E a \in Acts : GetMetaOK(a)
  \/ \E a \in Acts : GetMetaFail(a)
  \/ \E a \in Acts : Decide(a)
  \/ \E a \in Acts : DownloadOK(a)
  \/ \E a \in Acts : DownloadFail(a)
  \/ \E a \in Acts : BackoffElapsed(a)
  \/ \E a \in Acts : ImportFail(a)
  \/ \E a \in Acts : NoopMetaDone(a)
  \/ Tick
  \/ OtherDeviceUpload

SpecGuest == InitGuest /\ [][NextGuest]_vars

\* C39: while the engine has no userId no step imports into the local
\* store, uploads a snapshot of this device or changes the sync metadata.
C39_NoUserNoSync ==
  [][userId = NULL =>
       /\ entries' = entries /\ images' = images
       /\ meta' = meta
       /\ files' # files => Head(files').dev # DEVICE]_vars

\* ---------------------------------------------------------------------
\* Sync on save beside the switch of the periodic sync.
\* ---------------------------------------------------------------------

\* the settings page switches 'auto sync'
ToggleAutoSync ==
  /\ autoSyncEnabled' = ~autoSyncEnabled
  /\ NoEvent
  /\ UNCHANGED <<now, engineVars, isOnline, connection, accessToken, wifiOnly, syncOnSave,
                 dataVars, panel, debounceTimer, dropboxVars, retentionVars, debounceVars,
                 replicaVars, userVars>>

NextSaveSync ==
  \/ ClockTick
  \/ ToggleSyncOnSave
  \/ ToggleAutoSync
  \/ HandleSave
  \/ DebounceTimeout

SpecSaveSync == Init /\ [][NextSaveSync]_vars

\* C40: the sync that a save has armed enters SYNCING when its timeout runs
\* and the engine is online, authenticated, not syncing and not held back by
\* the network gate, whatever the switch of the periodic sync says.
C40_SaveSyncIgnoresAutoSwitch ==
  [][(/\ fireLog' # fireLog
      /\ isOnline /\ accessToken /\ status # SYNCING
      /\ ~(wifiOnly /\ ~isWifiConnected(connection)))
        => status' = SYNCING]_vars
====
